---------------------------- MODULE Spec2Model ----------------------------
(***************************************************************************)
(* Temporal aggregation, business calendar and concurrency sweep of the    *)
(* order dashboard (src/data/data_processor.py, src/dashboardsqlpequeno2.py*)
(* and src/utils/date_utils.py).                                           *)
(*                                                                         *)
(* Every operation of DataProcessor is a static method: a call takes the   *)
(* fetched response (data_state, todos) and its parameters and returns a   *)
(* value.  The state is therefore the arguments of the call, the name of   *)
(* the operation that ran (pc) and what it returned (ret).                 *)
(***************************************************************************)
EXTENDS Integers, Sequences, FiniteSets, TLC

VARIABLES
    pc,             \* "start" before the call, then the name of the operation that ran
    data_state,     \* the fetched response: "None", "failed" (success false) or "ok"
    todos,          \* data["data"]["detalle"]["general"]["todos"]: the order records
    fecha,          \* the target date parameter (a date)
    fechas,         \* the argument of _calculate_week_numbers (a list of dates)
    data_type,      \* the metric parameter of calculate_weekly_data: "pedidos" or "creditos"
    selected_year,  \* the year parameter of calculate_weekly_data (0 is None)
    now_year,       \* datetime.now().year at the time of the call
    current,        \* the first argument of safe_percentage_change
    previous,       \* the second argument of safe_percentage_change
    week_number,    \* the argument of get_week_date_range
    weekly_data,    \* the frame given to _add_date_ranges (its rows)
    hour,           \* the argument of format_hour_label and is_business_hour
    cache,          \* st.cache_data of get_orders_data: the stored entry of each key
    clock,          \* the time, in seconds
    db,             \* the content of the order database (a version number)
    log,            \* history: the events so far (cache calls and clears, session events)
    session_state,  \* st.session_state of one browser session
    app_mode,       \* the view selected in the sidebar
    rendered,       \* what the last run of main() rendered
    ret             \* the returned value

\* the state of the running dashboard: the fetch cache and the session
dashboard == <<cache, clock, db, log, session_state, app_mode, rendered>>

\* the arguments of a call (and the clock): the aggregators assign to none of them
args ==
    <<data_state, todos, fecha, fechas, data_type, selected_year, now_year,
      current, previous, week_number, weekly_data, hour, dashboard>>

vars ==
    <<pc, data_state, todos, fecha, fechas, data_type, selected_year, now_year,
      current, previous, week_number, weekly_data, hour, dashboard, ret>>

(***************************************************************************)
(* Bounds of the model.                                                    *)
(***************************************************************************)
FirstYear == 2020
LastYear == 2032
MaxDailyRecords == 3
MaxHourlyRecords == 3
MaxWeeklyRecords == 3
MaxConcurrencyRecords == 2

(***************************************************************************)
(* Generic helpers on sequences.                                           *)
(***************************************************************************)
Range(s) == {s[i] : i \in DOMAIN s}

\* the sum of f[x] over the elements x of S
RECURSIVE SumOver(_, _)
SumOver(S, f) ==
    IF S = {} THEN 0
    ELSE LET x == CHOOSE y \in S : TRUE IN f[x] + SumOver(S \ {x}, f)

\* the integers of S in ascending order
RECURSIVE SortInts(_)
SortInts(S) ==
    IF S = {} THEN <<>>
    ELSE LET lo == CHOOSE a \in S : \A b \in S : a <= b
         IN  <<lo>> \o SortInts(S \ {lo})

RECURSIVE SumSeq(_)
SumSeq(s) == IF s = <<>> THEN 0 ELSE Head(s) + SumSeq(Tail(s))

(***************************************************************************)
(* datetime.date: a date is a record [year, month, day]; comparison,       *)
(* ordinals and isocalendar() as CPython's datetime module computes them.  *)
(***************************************************************************)
Date(y, m, d) == [year |-> y, month |-> m, day |-> d]

NoDate == Date(0, 0, 0)

IsLeap(y) == y % 4 = 0 /\ (y % 100 # 0 \/ y % 400 = 0)

DaysInMonth(y, m) ==
    IF m = 2 THEN (IF IsLeap(y) THEN 29 ELSE 28)
    ELSE IF m \in {4, 6, 9, 11} THEN 30 ELSE 31

RECURSIVE DaysBeforeMonth(_, _)
DaysBeforeMonth(y, m) ==
    IF m = 1 THEN 0 ELSE DaysBeforeMonth(y, m - 1) + DaysInMonth(y, m - 1)

DaysBeforeYear(y) ==
    (y - 1) * 365 + (y - 1) \div 4 - (y - 1) \div 100 + (y - 1) \div 400

\* date.toordinal(): 0001-01-01 is day 1
Ymd2Ord(dt) == DaysBeforeYear(dt.year) + DaysBeforeMonth(dt.year, dt.month) + dt.day

\* a <= b on dates
DateLE(a, b) ==
    \/ a.year < b.year
    \/ a.year = b.year /\ a.month < b.month
    \/ a.year = b.year /\ a.month = b.month /\ a.day <= b.day

DateLT(a, b) == DateLE(a, b) /\ a # b

\* datetime._isoweek1monday(year): the ordinal of the Monday that starts ISO week 1
IsoWeek1Monday(y) ==
    LET firstday == Ymd2Ord(Date(y, 1, 1))
        firstweekday == (firstday + 6) % 7
        week1monday == firstday - firstweekday
    IN  IF firstweekday > 3 THEN week1monday + 7 ELSE week1monday

\* mutant: the week of the year counted from January 1st instead of the ISO week
IsoCalendarWeek_dayofyear(dt) ==
    (Ymd2Ord(dt) - Ymd2Ord(Date(dt.year, 1, 1))) \div 7 + 1

\* date.isocalendar()[1]
IsoCalendarWeek(dt) ==
    LET today == Ymd2Ord(dt)
        week == (today - IsoWeek1Monday(dt.year)) \div 7
    IN  IF week < 0
        THEN (today - IsoWeek1Monday(dt.year - 1)) \div 7 + 1
        ELSE IF week >= 52 /\ today >= IsoWeek1Monday(dt.year + 1)
             THEN 1
             ELSE week + 1

\* every calendar date of the modelled years
Dates ==
    {dt \in {Date(y, m, d) : y \in FirstYear..LastYear, m \in 1..12, d \in 1..31} :
        dt.day <= DaysInMonth(dt.year, dt.month)}

(***************************************************************************)
(* Business Calendar: DataProcessor._calculate_week_numbers and the        *)
(* legacy calcular_semanas.                                                *)
(***************************************************************************)
Between(lo, f, hi) == DateLE(lo, f) /\ DateLE(f, hi)

\* mutant: the upper bounds of the ranges compared with < instead of <=
week_num_exclusive(f) ==
    LET Inside(lo, hi) == DateLE(lo, f) /\ DateLT(f, hi)
    IN  IF f.year = 2025 THEN
            IF Inside(Date(2025, 1, 1), Date(2025, 1, 5)) THEN 1
            ELSE IF Inside(Date(2025, 12, 29), Date(2025, 12, 31)) THEN 53
            ELSE IsoCalendarWeek(f)
        ELSE IF f.year = 2026 THEN
            IF Inside(Date(2026, 1, 1), Date(2026, 1, 4)) THEN 1
            ELSE IF Inside(Date(2026, 1, 5), Date(2026, 1, 11)) THEN 2
            ELSE IF Inside(Date(2026, 12, 28), Date(2026, 12, 31))
                 THEN IsoCalendarWeek(Date(2026, 12, 31))
            ELSE IsoCalendarWeek(f)
        ELSE IF f.year = 2027 THEN
            IF Inside(Date(2027, 1, 1), Date(2027, 1, 3)) THEN 1
            ELSE IF Inside(Date(2027, 1, 4), Date(2027, 1, 10)) THEN 2
            ELSE IF Inside(Date(2027, 12, 27), Date(2027, 12, 31))
                 THEN IsoCalendarWeek(Date(2027, 12, 31))
            ELSE IsoCalendarWeek(f)
        ELSE IsoCalendarWeek(f)

\* mutant: no hard-coded range, the ISO week of every date
week_num_iso(f) == IsoCalendarWeek(f)

\* the body of the loop of _calculate_week_numbers for one date
week_num(f) ==
    IF f.year = 2025 THEN
        IF Between(Date(2025, 1, 1), f, Date(2025, 1, 5)) THEN 1
        ELSE IF Between(Date(2025, 12, 29), f, Date(2025, 12, 31)) THEN 53
        ELSE IsoCalendarWeek(f)
    ELSE IF f.year = 2026 THEN
        IF Between(Date(2026, 1, 1), f, Date(2026, 1, 4)) THEN 1
        ELSE IF Between(Date(2026, 1, 5), f, Date(2026, 1, 11)) THEN 2
        ELSE IF Between(Date(2026, 12, 28), f, Date(2026, 12, 31))
             THEN IsoCalendarWeek(Date(2026, 12, 31))
        ELSE IsoCalendarWeek(f)
    ELSE IF f.year = 2027 THEN
        IF Between(Date(2027, 1, 1), f, Date(2027, 1, 3)) THEN 1
        ELSE IF Between(Date(2027, 1, 4), f, Date(2027, 1, 10)) THEN 2
        ELSE IF Between(Date(2027, 12, 27), f, Date(2027, 12, 31))
             THEN IsoCalendarWeek(Date(2027, 12, 31))
        ELSE IsoCalendarWeek(f)
    ELSE IsoCalendarWeek(f)

calculate_week_numbers(fs) == [i \in DOMAIN fs |-> week_num(fs[i])]

\* the body of the loop of the legacy calcular_semanas (selected_year is unused)
semana_legacy(f) ==
    IF f.year = 2025 THEN
        IF Between(Date(2025, 1, 1), f, Date(2025, 1, 5)) THEN 1
        ELSE IF Between(Date(2025, 12, 29), f, Date(2025, 12, 31)) THEN 53
        ELSE IsoCalendarWeek(f)
    ELSE IF f.year = 2026 THEN
        IF Between(Date(2026, 1, 1), f, Date(2026, 1, 4)) THEN 1
        ELSE IF Between(Date(2026, 1, 5), f, Date(2026, 1, 11)) THEN 2
        ELSE IF Between(Date(2026, 12, 28), f, Date(2026, 12, 31))
             THEN IsoCalendarWeek(Date(2026, 12, 31))
        ELSE IsoCalendarWeek(f)
    ELSE IF f.year = 2027 THEN
        IF Between(Date(2027, 1, 1), f, Date(2027, 1, 3)) THEN 1
        ELSE IF Between(Date(2027, 1, 4), f, Date(2027, 1, 10)) THEN 2
        ELSE IF Between(Date(2027, 12, 27), f, Date(2027, 12, 31))
             THEN IsoCalendarWeek(Date(2027, 12, 31))
        ELSE IsoCalendarWeek(f)
    ELSE IsoCalendarWeek(f)

calcular_semanas(fs, year) == [i \in DOMAIN fs |-> semana_legacy(fs[i])]

NoRet == [status |-> "none"]

\* st.session_state of a new session: neither "password_correct" nor "password"
NoSession == [password_correct |-> "absent", password |-> "absent"]

\* a call outside the running dashboard: nothing cached, nobody logged in
NoDashboard ==
    /\ cache = <<>>
    /\ clock = 0
    /\ db = 0
    /\ log = <<>>
    /\ session_state = NoSession
    /\ app_mode = "Mapa de Calor"
    /\ rendered = "nothing"

\* a call that takes neither safe_percentage_change's, the week-range helpers'
\* nor the hour helpers' arguments
NoScalarArguments ==
    /\ current = [nan |-> FALSE, value |-> 0]
    /\ previous = [nan |-> FALSE, value |-> 0]
    /\ week_number = 0
    /\ weekly_data = <<>>
    /\ hour = 0

InitWeek ==
    /\ pc = "start"
    /\ data_state = "None"
    /\ todos = <<>>
    /\ fecha = NoDate
    /\ fechas \in {<<d>> : d \in Dates}
    /\ data_type = "pedidos"
    /\ selected_year = 0
    /\ now_year = FirstYear
    /\ NoScalarArguments
    /\ NoDashboard
    /\ ret = NoRet

CalculateWeekNumbers ==
    /\ pc = "start"
    /\ pc' = "_calculate_week_numbers"
    /\ ret' = [status |-> "ok", semanas |-> calculate_week_numbers(fechas)]
    /\ UNCHANGED args

CalcularSemanas ==
    /\ pc = "start"
    /\ pc' = "calcular_semanas"
    /\ ret' = [status |-> "ok", semanas |-> calcular_semanas(fechas, selected_year)]
    /\ UNCHANGED args

NextWeek == CalculateWeekNumbers \/ CalcularSemanas

SpecWeek == InitWeek /\ [][NextWeek]_vars

(***************************************************************************)
(* Claims about the Business Calendar.                                     *)
(***************************************************************************)
\* ISO 8601 by its definition: the week of a date is the week of the Thursday of
\* its Monday-to-Sunday week, counted within that Thursday's year.
ISO8601Week(dt) ==
    LET ord == Ymd2Ord(dt)
        thursday == ord - ((ord + 6) % 7) + 3
        y == CHOOSE yy \in (dt.year - 1)..(dt.year + 1) :
                 DaysBeforeYear(yy) < thursday /\ thursday <= DaysBeforeYear(yy + 1)
    IN  (thursday - DaysBeforeYear(y) - 1) \div 7 + 1

\* the hard-coded ranges, as the specification lists them
HardCodedRange(f) ==
    \/ Between(Date(2025, 1, 1), f, Date(2025, 1, 5))
    \/ Between(Date(2025, 12, 29), f, Date(2025, 12, 31))
    \/ Between(Date(2026, 1, 1), f, Date(2026, 1, 4))
    \/ Between(Date(2026, 1, 5), f, Date(2026, 1, 11))
    \/ Between(Date(2026, 12, 28), f, Date(2026, 12, 31))
    \/ Between(Date(2027, 1, 1), f, Date(2027, 1, 3))
    \/ Between(Date(2027, 1, 4), f, Date(2027, 1, 10))
    \/ Between(Date(2027, 12, 27), f, Date(2027, 12, 31))

WeekCallDone == pc \in {"_calculate_week_numbers", "calcular_semanas"}

\* C1: table fidelity.  Every date of a hard-coded range gets the listed week
\* (1, 53, 1, 2, ISO week of 2026-12-31, 1, 2, ISO week of 2027-12-31), and the
\* first date after each start-of-year range gets its ISO week number; this
\* holds of _calculate_week_numbers and of the legacy calcular_semanas.
C1_TableFidelity ==
    WeekCallDone =>
        \A i \in DOMAIN fechas :
            LET f == fechas[i]
                w == ret.semanas[i]
            IN  /\ Between(Date(2025, 1, 1), f, Date(2025, 1, 5)) => w = 1
                /\ Between(Date(2025, 12, 29), f, Date(2025, 12, 31)) => w = 53
                /\ Between(Date(2026, 1, 1), f, Date(2026, 1, 4)) => w = 1
                /\ Between(Date(2026, 1, 5), f, Date(2026, 1, 11)) => w = 2
                /\ Between(Date(2026, 12, 28), f, Date(2026, 12, 31))
                      => w = ISO8601Week(Date(2026, 12, 31))
                /\ Between(Date(2027, 1, 1), f, Date(2027, 1, 3)) => w = 1
                /\ Between(Date(2027, 1, 4), f, Date(2027, 1, 10)) => w = 2
                /\ Between(Date(2027, 12, 27), f, Date(2027, 12, 31))
                      => w = ISO8601Week(Date(2027, 12, 31))
                /\ f \in {Date(2025, 1, 6), Date(2026, 1, 12), Date(2027, 1, 11)}
                      => w = ISO8601Week(f)

\* a date of the last 2025 range, where the table (53) departs from ISO (week 1)
C1_Witness ==
    /\ pc = "_calculate_week_numbers"
    /\ fechas = <<Date(2025, 12, 30)>>
    /\ ret.semanas = <<53>>
    /\ ISO8601Week(Date(2025, 12, 30)) = 1

\* C2: ISO fallback.  A date outside 2025-2027, or inside those years but in
\* none of the hard-coded ranges, gets exactly its ISO-8601 week number.
C2_IsoFallback ==
    pc = "_calculate_week_numbers" =>
        \A i \in DOMAIN fechas :
            ~HardCodedRange(fechas[i]) => ret.semanas[i] = ISO8601Week(fechas[i])

\* a date of another year whose ISO week belongs to the neighbouring ISO year
C2_Witness ==
    /\ pc = "_calculate_week_numbers"
    /\ fechas = <<Date(2024, 12, 30)>>
    /\ ret.semanas = <<1>>

(***************************************************************************)
(* Order records and the pandas operations the aggregators use.            *)
(*                                                                         *)
(* A timestamp field holds a parseable timestamp ("ts": a date and the     *)
(* seconds since midnight), a missing value ("null": None / NaT) or a      *)
(* string that is no timestamp ("bad").  id_restaurant 0 is a missing id.  *)
(***************************************************************************)
Ts(dt, h, mi, sec) == [kind |-> "ts", date |-> dt, sec |-> h * 3600 + mi * 60 + sec]

NaT == [kind |-> "null", date |-> NoDate, sec |-> 0]

Unparseable == [kind |-> "bad", date |-> NoDate, sec |-> 0]

\* costo_creditos: a number, a missing value or a value that is no number
Credits(n) == [kind |-> "num", value |-> n]

NoCredits == [kind |-> "null", value |-> 0]

BadCredits == [kind |-> "bad", value |-> 0]

\* mutant: what is no number counts as 1
to_numeric_coerce_fillna1(v) == IF v.kind = "num" THEN v.value ELSE 1

\* pd.to_numeric(column, errors="coerce").fillna(0)
to_numeric_coerce_fillna0(v) == IF v.kind = "num" THEN v.value ELSE 0

Order(rest, acc, comp, created, cred) ==
    [id_restaurant |-> rest, order_acceptance_date |-> acc,
     order_completion_date |-> comp, created_at |-> created, costo_creditos |-> cred]

\* pd.to_datetime(column, errors='coerce'): what cannot be parsed becomes NaT
to_datetime_coerce(v) == IF v.kind = "bad" THEN NaT ELSE v

\* pd.to_datetime(column) with the default errors='raise': raises on the first
\* value that cannot be parsed
to_datetime_raises(column) == \E i \in DOMAIN column : column[i].kind = "bad"

\* the sequences of length 0..n over S
SeqUpTo(S, n) == UNION {[1..k -> S] : k \in 0..n}

\* the dates of S in ascending order (groupby and merge sort their keys)
RECURSIVE SortDates(_)
SortDates(S) ==
    IF S = {} THEN <<>>
    ELSE LET lo == CHOOSE a \in S : \A b \in S : DateLE(a, b)
         IN  <<lo>> \o SortDates(S \ {lo})

\* the DataFrame returned for a failed fetch or no rows: pd.DataFrame()
EmptyFrame == [status |-> "ok", rows |-> <<>>]

Raised(err) == [status |-> "raises", error |-> err, rows |-> <<>>]

(***************************************************************************)
(* DataProcessor.process_establishments_orders                             *)
(***************************************************************************)
\* df["fecha"] = pd.to_datetime(df["order_completion_date"]).dt.date
daily_fecha(r) == r.order_completion_date

\* df.groupby("fecha").size() at one date
daily_size(rows, dt) ==
    Cardinality({i \in DOMAIN rows : daily_fecha(rows[i]).kind = "ts"
                                        /\ daily_fecha(rows[i]).date = dt})

\* df.groupby("fecha")["id_restaurant"].nunique() at one date (missing ids do not count)
daily_nunique(rows, dt) ==
    Cardinality({rows[i].id_restaurant :
                    i \in {j \in DOMAIN rows : /\ daily_fecha(rows[j]).kind = "ts"
                                               /\ daily_fecha(rows[j]).date = dt
                                               /\ rows[j].id_restaurant # 0}})

\* the keys of a groupby on "fecha": NaT keys are dropped
daily_keys(rows) ==
    {daily_fecha(rows[i]).date : i \in {j \in DOMAIN rows : daily_fecha(rows[j]).kind = "ts"}}

\* mutant: a day without restaurants gets the average 0
Promedio_zero(pedidos, establecimientos) ==
    IF establecimientos = 0
    THEN [defined |-> TRUE, num |-> 0, den |-> 1]
    ELSE [defined |-> TRUE, num |-> pedidos, den |-> establecimientos]

\* Pedidos / Establecimientos.replace(0, np.nan)
Promedio(pedidos, establecimientos) ==
    IF establecimientos = 0
    THEN [defined |-> FALSE, num |-> 0, den |-> 0]
    ELSE [defined |-> TRUE, num |-> pedidos, den |-> establecimientos]

\* pd.merge(pedidos, establecimientos, on="fecha", how="outer").fillna(0) and the
\* renamed, typed columns
daily_merge(rows) ==
    LET left == daily_keys(rows)
        right == daily_keys(rows)
        keys == SortDates(left \cup right)
    IN  [i \in DOMAIN keys |->
            LET ped == IF keys[i] \in left THEN daily_size(rows, keys[i]) ELSE 0
                est == IF keys[i] \in right THEN daily_nunique(rows, keys[i]) ELSE 0
            IN  [Fecha |-> keys[i], Pedidos |-> ped, Establecimientos |-> est,
                 Promedio |-> Promedio(ped, est)]]

process_establishments_orders(state, rows) ==
    IF state # "ok" THEN EmptyFrame
    ELSE IF rows = <<>> THEN EmptyFrame
    ELSE IF to_datetime_raises([i \in DOMAIN rows |-> rows[i].order_completion_date])
         THEN Raised("ValueError")
    ELSE [status |-> "ok", rows |-> daily_merge(rows)]

\* the completion timestamps and restaurants of the daily model
DailyStamps ==
    {Ts(Date(2025, 6, 1), 10, 0, 0), Ts(Date(2025, 6, 1), 20, 30, 0),
     Ts(Date(2025, 6, 2), 9, 0, 0), NaT, Unparseable}

DailyOrders == {Order(rest, NaT, comp, NaT, NoCredits) : rest \in 0..2, comp \in DailyStamps}

InitDaily ==
    /\ pc = "start"
    /\ data_state \in {"None", "failed", "ok"}
    /\ todos \in SeqUpTo(DailyOrders, MaxDailyRecords)
    /\ data_state # "ok" => todos = <<>>
    /\ fecha = NoDate
    /\ fechas = <<>>
    /\ data_type = "pedidos"
    /\ selected_year = 0
    /\ now_year = FirstYear
    /\ NoScalarArguments
    /\ NoDashboard
    /\ ret = NoRet

ProcessEstablishmentsOrders ==
    /\ pc = "start"
    /\ pc' = "process_establishments_orders"
    /\ ret' = process_establishments_orders(data_state, todos)
    /\ UNCHANGED args

NextDaily == ProcessEstablishmentsOrders

SpecDaily == InitDaily /\ [][NextDaily]_vars

(***************************************************************************)
(* Claims about the daily aggregate.                                       *)
(***************************************************************************)
\* the input records whose field holds a valid timestamp
ValidCompleted == {i \in DOMAIN todos : todos[i].order_completion_date.kind = "ts"}

CompletedOn(dt) == {i \in ValidCompleted : todos[i].order_completion_date.date = dt}

RowsPedidos(rows) == SumSeq([i \in DOMAIN rows |-> rows[i].Pedidos])

\* C3: daily conservation.  For any record sequence, the order counts of the day
\* buckets returned by process_establishments_orders add up to the number of
\* input records with a valid completed_at.
C3_DailyConservation ==
    pc = "process_establishments_orders" =>
        RowsPedidos(ret.rows) = Cardinality(ValidCompleted)

\* C4: daily grouping.  process_establishments_orders returns exactly one bucket
\* per distinct completion date of the input and no other, with the number of
\* records completed on that date and the number of distinct restaurant ids
\* among them.
C4_DailyGrouping ==
    pc = "process_establishments_orders" =>
        /\ \A i \in ValidCompleted :
              \E k \in DOMAIN ret.rows : ret.rows[k].Fecha = todos[i].order_completion_date.date
        /\ \A k \in DOMAIN ret.rows :
              /\ CompletedOn(ret.rows[k].Fecha) # {}
              /\ \A l \in DOMAIN ret.rows : ret.rows[l].Fecha = ret.rows[k].Fecha => l = k
              /\ ret.rows[k].Pedidos = Cardinality(CompletedOn(ret.rows[k].Fecha))
              /\ ret.rows[k].Establecimientos =
                    Cardinality({todos[i].id_restaurant : i \in CompletedOn(ret.rows[k].Fecha)}
                                    \ {0})

\* What the code does give: whenever the call returns (no completed_at is an
\* unparseable string), the buckets are exactly those of C3 and C4.
DailyAggregateWhenParsed ==
    (pc = "process_establishments_orders" /\ ret.status = "ok") =>
        /\ RowsPedidos(ret.rows) = Cardinality(ValidCompleted)
        /\ \A i \in ValidCompleted :
              \E k \in DOMAIN ret.rows : ret.rows[k].Fecha = todos[i].order_completion_date.date
        /\ \A k \in DOMAIN ret.rows :
              /\ ret.rows[k].Pedidos = Cardinality(CompletedOn(ret.rows[k].Fecha))
              /\ ret.rows[k].Pedidos > 0

(***************************************************************************)
(* DataProcessor.process_hourly_orders and the legacy procesar_pedidos_hora*)
(***************************************************************************)
HourOf(ts) == ts.sec \div 3600

\* df["creacion"].dt.date == fecha, on the coerced column
hourly_filtrado(rows, f) ==
    {i \in DOMAIN rows :
        LET creacion == to_datetime_coerce(rows[i].order_completion_date)
        IN  creacion.kind = "ts" /\ creacion.date = f}

\* mutant: the business-hours filter opens after 8 (hora > 8)
in_business_hours_late(h) == h > 8 /\ h <= 23

\* (hora >= 8) & (hora <= 23)
in_business_hours(h) == h >= 8 /\ h <= 23

\* mutant: range(8, 23), as the legacy procesar_pedidos_hora has it
horas_rango_short == [i \in 1..15 |-> 7 + i]

\* pd.DataFrame({"hora": range(8, 24)})
horas_rango == [i \in 1..16 |-> 7 + i]

\* the label lambda: f"{x - 12}:00 PM" if x > 12 else f"{x}:00 AM" if x < 12 else "12:00 PM"
etiqueta_hora(x) ==
    IF x > 12 THEN <<x - 12, ":00 PM">>
    ELSE IF x < 12 THEN <<x, ":00 AM">>
    ELSE <<12, ":00 PM">>

\* horas.merge(conteo_hora, on="hora", how="left").fillna(0) with the labels
hourly_merge(rows, filtrado, horas) ==
    [k \in DOMAIN horas |->
        [hora |-> horas[k],
         pedidos |-> Cardinality({i \in filtrado :
                                    /\ in_business_hours(HourOf(rows[i].order_completion_date))
                                    /\ HourOf(rows[i].order_completion_date) = horas[k]}),
         etiqueta_hora |-> etiqueta_hora(horas[k])]]

process_hourly_orders(state, rows, f) ==
    IF state # "ok" THEN EmptyFrame
    ELSE IF rows = <<>> THEN EmptyFrame
    ELSE IF hourly_filtrado(rows, f) = {} THEN EmptyFrame
    ELSE [status |-> "ok", rows |-> hourly_merge(rows, hourly_filtrado(rows, f), horas_rango)]

\* the legacy function: no validation, errors='raise', range(8, 23)
procesar_pedidos_hora(state, rows, f) ==
    IF state = "None" THEN Raised("TypeError")
    ELSE IF rows = <<>> THEN Raised("KeyError")
    ELSE IF to_datetime_raises([i \in DOMAIN rows |-> rows[i].order_completion_date])
         THEN Raised("ValueError")
    ELSE [status |-> "ok",
          rows |-> hourly_merge(rows, hourly_filtrado(rows, f), horas_rango_short)]

HourlyStamps ==
    {Ts(Date(2025, 6, 1), 7, 59, 59), Ts(Date(2025, 6, 1), 8, 0, 0),
     Ts(Date(2025, 6, 1), 12, 30, 0), Ts(Date(2025, 6, 1), 23, 59, 59),
     Ts(Date(2025, 6, 2), 0, 10, 0), Ts(Date(2025, 6, 2), 8, 15, 0),
     NaT, Unparseable}

HourlyOrders == {Order(1, NaT, comp, NaT, NoCredits) : comp \in HourlyStamps}

InitHourly ==
    /\ pc = "start"
    /\ data_state \in {"None", "failed", "ok"}
    /\ todos \in SeqUpTo(HourlyOrders, MaxHourlyRecords)
    /\ data_state # "ok" => todos = <<>>
    /\ fecha \in {Date(2025, 6, 1), Date(2025, 6, 2), Date(2025, 6, 3)}
    /\ fechas = <<>>
    /\ data_type = "pedidos"
    /\ selected_year = 0
    /\ now_year = FirstYear
    /\ NoScalarArguments
    /\ NoDashboard
    /\ ret = NoRet

ProcessHourlyOrders ==
    /\ pc = "start"
    /\ pc' = "process_hourly_orders"
    /\ ret' = process_hourly_orders(data_state, todos, fecha)
    /\ UNCHANGED args

ProcesarPedidosHora ==
    /\ pc = "start"
    /\ pc' = "procesar_pedidos_hora"
    /\ ret' = procesar_pedidos_hora(data_state, todos, fecha)
    /\ UNCHANGED args

NextHourly == ProcessHourlyOrders \/ ProcesarPedidosHora

SpecHourly == InitHourly /\ [][NextHourly]_vars

(***************************************************************************)
(* Claims about the hourly distribution.                                   *)
(***************************************************************************)
RowsHourly(rows) == SumSeq([i \in DOMAIN rows |-> rows[i].pedidos])

\* the records whose completed_at is a valid timestamp of the target date
CompletedOnTarget == CompletedOn(fecha)

DenseHours(rows) ==
    /\ Len(rows) = 16
    /\ \A k \in 1..16 : rows[k].hora = 7 + k

\* C5 as stated: process_hourly_orders returns exactly 16 entries, one per hour
\* 8..23 in ascending order, for every input and target date, empty input and a
\* date with no orders included.
C5_AlwaysSixteen ==
    pc = "process_hourly_orders" => DenseHours(ret.rows)

\* C5 as amended: process_hourly_orders returns no entries when the fetch failed,
\* the input is empty or no record was completed on the target date; otherwise it
\* returns exactly 16 entries, one per hour 8..23 in ascending order, and an hour
\* in which no order of that date was completed has count 0.
C5_SixteenOrEmpty ==
    pc = "process_hourly_orders" =>
        /\ ret.status = "ok"
        /\ CompletedOnTarget = {} => ret.rows = <<>>
        /\ CompletedOnTarget # {} =>
              /\ DenseHours(ret.rows)
              /\ \A k \in DOMAIN ret.rows :
                    (\A i \in CompletedOnTarget :
                        HourOf(todos[i].order_completion_date) # ret.rows[k].hora)
                        => ret.rows[k].pedidos = 0

\* a dense result of one order, completed at hour 8: hours 9 and 23 hold 0
C5_Witness ==
    /\ pc = "process_hourly_orders"
    /\ Len(ret.rows) = 16
    /\ ret.rows[1].pedidos = 1
    /\ ret.rows[2].pedidos = 0
    /\ ret.rows[16].pedidos = 0
    /\ Cardinality(CompletedOnTarget) = 1

\* C6 as stated: the counts returned by process_hourly_orders add up to the number
\* of input records whose completed_at date is the target date.
C6_SumIsAllOfDate ==
    pc = "process_hourly_orders" =>
        RowsHourly(ret.rows) = Cardinality(CompletedOnTarget)

\* C6 as amended: the counts add up to the number of input records whose
\* completed_at date is the target date and whose completion hour is in 8..23.
C6_SumIsBusinessHoursOfDate ==
    pc = "process_hourly_orders" =>
        RowsHourly(ret.rows) =
            Cardinality({i \in CompletedOnTarget :
                            /\ HourOf(todos[i].order_completion_date) >= 8
                            /\ HourOf(todos[i].order_completion_date) <= 23})

\* two orders of the target date, one before 8:00: only the other is counted
C6_Witness ==
    /\ pc = "process_hourly_orders"
    /\ Cardinality(CompletedOnTarget) = 2
    /\ \E i \in CompletedOnTarget : HourOf(todos[i].order_completion_date) < 8
    /\ RowsHourly(ret.rows) = 1

(***************************************************************************)
(* DataProcessor.calculate_weekly_data                                     *)
(***************************************************************************)
\* df["fecha"]: the date of completed_at (pedidos) or of created_at (creditos),
\* parsed with errors='coerce'
weekly_fecha(r, tipo) ==
    to_datetime_coerce(IF tipo = "pedidos" THEN r.order_completion_date ELSE r.created_at)

\* df.dropna(subset=["fecha"]).groupby("fecha"): the dates that have a group
weekly_keys(rows, tipo) ==
    {weekly_fecha(rows[i], tipo).date :
        i \in {j \in DOMAIN rows : weekly_fecha(rows[j], tipo).kind = "ts"}}

\* .size() (pedidos) or [col_valor].sum() (creditos) of the group of one date
weekly_valor(rows, tipo, dt) ==
    LET grupo == {i \in DOMAIN rows : /\ weekly_fecha(rows[i], tipo).kind = "ts"
                                      /\ weekly_fecha(rows[i], tipo).date = dt}
    IN  IF tipo = "pedidos" THEN Cardinality(grupo)
        ELSE SumOver(grupo, [i \in grupo |-> to_numeric_coerce_fillna0(rows[i].costo_creditos)])

\* mutant: the year filter keeps the later years too
weekly_in_year_from(dt, year) == dt.year >= year

\* pd.to_datetime(df_agrupado['fecha']).dt.year == selected_year
weekly_in_year(dt, year) == dt.year = year

\* mutant: one row per date instead of one per week
weekly_semanas_per_date(semana) == semana

\* the keys of groupby("semana"), ascending (and sort_values("semana"))
weekly_semanas(semana) == SortInts(Range(semana))

\* mutant: the dates of every week
week_data_of_any_week(agrupado, semana, week) == {agrupado[i] : i \in DOMAIN agrupado}

\* df_agrupado[df_agrupado['semana'] == week_num]['fecha']
week_data_of(agrupado, semana, week) ==
    {agrupado[i] : i \in {j \in DOMAIN agrupado : semana[j] = week}}

\* the per-week table: groupby("semana").agg(sum), the first and last date seen
\* of each week, the formatted range, sorted by week
weekly_semanal(rows, tipo, year) ==
    LET agrupado == SortDates({dt \in weekly_keys(rows, tipo) : weekly_in_year(dt, year)})
        semana == calculate_week_numbers(agrupado)
        semanas == weekly_semanas(semana)
    IN  [k \in DOMAIN semanas |->
            LET idx == {i \in DOMAIN agrupado : semana[i] = semanas[k]}
                week_data == week_data_of(agrupado, semana, semanas[k])
                min_date == CHOOSE a \in week_data : \A b \in week_data : DateLE(a, b)
                max_date == CHOOSE a \in week_data : \A b \in week_data : DateLE(b, a)
            IN  [semana |-> semanas[k],
                 valor |-> SumOver(idx, [i \in idx |-> weekly_valor(rows, tipo, agrupado[i])]),
                 fecha_inicio |-> min_date,
                 fecha_fin |-> max_date,
                 rango_fechas |-> <<min_date, " - ", max_date>>]]

calculate_weekly_data(state, rows, tipo, year, now) ==
    IF state # "ok" \/ rows = <<>> THEN EmptyFrame
    ELSE IF weekly_keys(rows, tipo) = {} THEN EmptyFrame
    ELSE LET y == IF year = 0 THEN now ELSE year
         IN  IF {dt \in weekly_keys(rows, tipo) : weekly_in_year(dt, y)} = {}
             THEN EmptyFrame
             ELSE [status |-> "ok",
                   columna |-> IF tipo = "pedidos" THEN "pedidos_totales" ELSE "creditos_totales",
                   rows |-> weekly_semanal(rows, tipo, y)]

\* completion dates around the 2025/2026 boundary: ISO week 52, the hard-coded
\* week 53, and weeks 1 and 2 of 2026
WeeklyStamps ==
    {Ts(Date(2025, 12, 28), 13, 0, 0), Ts(Date(2025, 12, 29), 9, 0, 0),
     Ts(Date(2025, 12, 31), 22, 0, 0), Ts(Date(2026, 1, 1), 10, 0, 0),
     Ts(Date(2026, 1, 5), 10, 0, 0), NaT, Unparseable}

WeeklyCreated ==
    {Ts(Date(2025, 12, 28), 12, 0, 0), Ts(Date(2025, 12, 30), 9, 0, 0),
     Ts(Date(2026, 1, 2), 10, 0, 0), Unparseable}

WeeklyOrders(tipo) ==
    IF tipo = "pedidos"
    THEN {Order(1, NaT, comp, NaT, NoCredits) : comp \in WeeklyStamps}
    ELSE {Order(1, NaT, NaT, created, cred) :
            created \in WeeklyCreated, cred \in {Credits(2), Credits(5), BadCredits}}

InitWeekly ==
    /\ pc = "start"
    /\ data_state \in {"None", "failed", "ok"}
    /\ data_type \in {"pedidos", "creditos"}
    /\ todos \in SeqUpTo(WeeklyOrders(data_type), MaxWeeklyRecords)
    /\ data_state # "ok" => todos = <<>>
    /\ fecha = NoDate
    /\ fechas = <<>>
    /\ selected_year \in {0, 2025, 2026}
    /\ now_year \in {2025, 2026}
    /\ NoScalarArguments
    /\ NoDashboard
    /\ ret = NoRet

CalculateWeeklyData ==
    /\ pc = "start"
    /\ pc' = "calculate_weekly_data"
    /\ ret' = calculate_weekly_data(data_state, todos, data_type, selected_year, now_year)
    /\ UNCHANGED args

NextWeekly == CalculateWeeklyData

SpecWeekly == InitWeekly /\ [][NextWeekly]_vars

(***************************************************************************)
(* Claims about the weekly aggregate.                                      *)
(***************************************************************************)
RowsValor(rows) == SumSeq([i \in DOMAIN rows |-> rows[i].valor])

\* the year the call aggregates: the parameter, or the clock's year when it is None
EffectiveYear == IF selected_year = 0 THEN now_year ELSE selected_year

\* C10: weekly conservation.  The pedidos_totales of the week buckets returned by
\* calculate_weekly_data(records, "pedidos", Y) add up to the number of input
\* records whose completed_at is valid and falls in year Y.
C10_WeeklyConservation ==
    (pc = "calculate_weekly_data" /\ data_type = "pedidos") =>
        /\ ret.status = "ok"
        /\ RowsValor(ret.rows) =
              Cardinality({i \in ValidCompleted :
                              todos[i].order_completion_date.date.year = EffectiveYear})

\* three records, one of the selected year 2025 in the hard-coded week 53, one of
\* 2026 and one unparseable: one bucket with one order
C10_Witness ==
    /\ pc = "calculate_weekly_data"
    /\ data_type = "pedidos"
    /\ selected_year = 2025
    /\ Len(todos) = 3
    /\ \E i \in DOMAIN todos : todos[i].order_completion_date.kind = "bad"
    /\ \E i \in ValidCompleted : todos[i].order_completion_date.date.year = 2026
    /\ Len(ret.rows) = 1
    /\ ret.rows[1].semana = 53
    /\ ret.rows[1].valor = 1

(***************************************************************************)
(* DataProcessor.process_concurrency                                       *)
(*                                                                         *)
(* A pandas Timestamp is an instant: here the seconds since 1970-01-01.    *)
(***************************************************************************)
Epoch(ts) == (Ymd2Ord(ts.date) - Ymd2Ord(Date(1970, 1, 1))) * 86400 + ts.sec

\* Timestamp.floor("h") and Timestamp.ceil("h")
\* mutant: rounding down to the minute instead of the hour
floor_h_to_minute(t) == t - (t % 60)

floor_h(t) == t - (t % 3600)

ceil_h(t) == IF t % 3600 = 0 THEN t ELSE floor_h(t) + 3600

\* pd.date_range(start, end, freq="1min"): start, start + 1 min, ... up to end
date_range_1min(start, end) ==
    IF end < start THEN <<>>
    ELSE [i \in 1..((end - start) \div 60 + 1) |-> start + 60 * (i - 1)]

\* the rows accepted on the target date (acceptance parsed with errors='raise')
concurrency_filtrado(rows, f) ==
    {i \in DOMAIN rows : /\ rows[i].order_acceptance_date.kind = "ts"
                         /\ rows[i].order_acceptance_date.date = f}

\* dropna(subset=["entrega"]) on the completion parsed with errors='coerce'
concurrency_entregados(rows, filtrado) ==
    {i \in filtrado : to_datetime_coerce(rows[i].order_completion_date).kind = "ts"}

\* mutant: the overlap test with the bucket half-open at its end
overlaps_half_open(asignacion, entrega, inicio_seg, fin_seg) ==
    asignacion < fin_seg /\ entrega >= inicio_seg

\* mutant: the overlap test with strict comparisons
overlaps_strict(asignacion, entrega, inicio_seg, fin_seg) ==
    asignacion < fin_seg /\ entrega > inicio_seg

\* (asignacion <= fin_seg) & (entrega >= inicio_seg)
overlaps(asignacion, entrega, inicio_seg, fin_seg) ==
    asignacion <= fin_seg /\ entrega >= inicio_seg

\* the loop over the segments: one count per pair of consecutive segment starts
concurrencia(rows, entregados, segmentos) ==
    [i \in 1..(Len(segmentos) - 1) |->
        Cardinality({r \in entregados :
            overlaps(Epoch(rows[r].order_acceptance_date), Epoch(rows[r].order_completion_date),
                     segmentos[i], segmentos[i + 1])})]

\* mutant: the last index of the maximum
argmax_last(xs) ==
    CHOOSE i \in DOMAIN xs : (\A j \in DOMAIN xs : xs[j] <= xs[i])
                             /\ (\A j \in DOMAIN xs : j > i => xs[j] < xs[i])

\* np.argmax: the first index of the maximum (1-based here)
argmax(xs) ==
    CHOOSE i \in DOMAIN xs : (\A j \in DOMAIN xs : xs[j] <= xs[i])
                             /\ (\A j \in DOMAIN xs : j < i => xs[j] < xs[i])

\* mutant: the window runs to the end of the last bucket that ties for the maximum
mejor_fin_of_tied_span(segmentos, conteos, max_idx) ==
    LET last == CHOOSE i \in DOMAIN conteos :
                    /\ conteos[i] = conteos[max_idx]
                    /\ \A j \in DOMAIN conteos : conteos[j] = conteos[max_idx] => j <= i
    IN  segmentos[last + 1]

\* mejor_fin = segmentos[max_idx + 1]
mejor_fin(segmentos, conteos, max_idx) == segmentos[max_idx + 1]

NoneTuple == [status |-> "None"]

process_concurrency(rows, f) ==
    IF rows = <<>> THEN NoneTuple
    ELSE IF to_datetime_raises([i \in DOMAIN rows |-> rows[i].order_acceptance_date])
         THEN Raised("ValueError")
    ELSE IF concurrency_filtrado(rows, f) = {} THEN NoneTuple
    ELSE IF concurrency_entregados(rows, concurrency_filtrado(rows, f)) = {} THEN NoneTuple
    ELSE
        LET entregados == concurrency_entregados(rows, concurrency_filtrado(rows, f))
            min_time == CHOOSE t \in {Epoch(rows[i].order_acceptance_date) : i \in entregados} :
                            \A i \in entregados : t <= Epoch(rows[i].order_acceptance_date)
            max_time == CHOOSE t \in {Epoch(rows[i].order_completion_date) : i \in entregados} :
                            \A i \in entregados : t >= Epoch(rows[i].order_completion_date)
            segmentos == date_range_1min(floor_h(min_time), ceil_h(max_time))
            conteos == concurrencia(rows, entregados, segmentos)
        IN  IF conteos = <<>>
            THEN Raised("ValueError")     \* np.argmax of an empty sequence
            ELSE LET max_idx == argmax(conteos)
                 IN  [status |-> "ok",
                      fig |-> "Figure",
                      max_concurrencia |-> conteos[max_idx],
                      mejor_inicio |-> segmentos[max_idx],
                      mejor_fin |-> mejor_fin(segmentos, conteos, max_idx),
                      df_concurrencia |->
                          [i \in DOMAIN conteos |->
                              [Hora |-> segmentos[i], Pedidos_Simultaneos |-> conteos[i]]]]

\* acceptance and completion values around 10:00 of the target day: on and off
\* the minute, on the hour, another day, missing and unparseable
TargetDay == Date(2025, 6, 1)

AcceptanceStamps ==
    {Ts(TargetDay, 10, 0, 0), Ts(TargetDay, 10, 0, 30), Ts(TargetDay, 10, 2, 0),
     Ts(Date(2025, 6, 2), 10, 0, 30), NaT, Unparseable}

CompletionStamps ==
    {Ts(TargetDay, 9, 59, 30), Ts(TargetDay, 10, 0, 0), Ts(TargetDay, 10, 1, 0),
     Ts(TargetDay, 10, 3, 30), NaT, Unparseable}

ConcurrencyOrders ==
    {Order(1, acc, comp, NaT, NoCredits) : acc \in AcceptanceStamps, comp \in CompletionStamps}

InitConcurrency ==
    /\ pc = "start"
    /\ data_state = "ok"
    /\ todos \in SeqUpTo(ConcurrencyOrders, MaxConcurrencyRecords)
    /\ fecha = TargetDay
    /\ fechas = <<>>
    /\ data_type = "pedidos"
    /\ selected_year = 0
    /\ now_year = FirstYear
    /\ NoScalarArguments
    /\ NoDashboard
    /\ ret = NoRet

ProcessConcurrency ==
    /\ pc = "start"
    /\ pc' = "process_concurrency"
    /\ ret' = process_concurrency(todos, fecha)
    /\ UNCHANGED args

NextConcurrency == ProcessConcurrency

SpecConcurrency == InitConcurrency /\ [][NextConcurrency]_vars

(***************************************************************************)
(* Claims about the concurrency sweep.                                     *)
(***************************************************************************)
ConcurrencyOk == pc = "process_concurrency" /\ ret.status = "ok"

\* the records the sweep counts: accepted on the target date, with a valid completion
Qualifying ==
    {i \in DOMAIN todos : /\ todos[i].order_acceptance_date.kind = "ts"
                          /\ todos[i].order_acceptance_date.date = fecha
                          /\ todos[i].order_completion_date.kind = "ts"}

Accepted(i) == Epoch(todos[i].order_acceptance_date)

Completed(i) == Epoch(todos[i].order_completion_date)

\* every counted record is an interval: accepted no later than completed
WellFormedIntervals == \A i \in Qualifying : Accepted(i) <= Completed(i)

floor_min(t) == t - (t % 60)

ceil_min(t) == IF t % 60 = 0 THEN t ELSE floor_min(t) + 60

\* An event-counting sweep over the buckets of a series: every record adds 1 at
\* the bucket that starts at inc[i] and takes 1 away at the bucket that starts at
\* dec[i]; the count of a bucket is the running sum.  Events that fall before
\* the first bucket are applied at the first bucket.  EventSweep gives the
\* counts of the first k buckets.
RECURSIVE EventSweep(_, _, _, _)
EventSweep(series, inc, dec, k) ==
    IF k = 0 THEN <<>>
    ELSE LET before == EventSweep(series, inc, dec, k - 1)
             lo == IF k = 1 THEN -1 ELSE series[k - 1].Hora
             hi == series[k].Hora
             delta == Cardinality({i \in Qualifying : lo < inc[i] /\ inc[i] <= hi})
                      - Cardinality({i \in Qualifying : lo < dec[i] /\ dec[i] <= hi})
         IN  Append(before, (IF k = 1 THEN 0 ELSE before[k - 1]) + delta)

\* the counts of the naive overlap test, as returned
NaiveCounts == [k \in DOMAIN ret.df_concurrencia |-> ret.df_concurrencia[k].Pedidos_Simultaneos]

\* the sweep of the specification: increment at the acceptance minute, decrement
\* at the completion minute
AcceptanceMinute == [i \in Qualifying |-> floor_min(Accepted(i))]

CompletionMinute == [i \in Qualifying |-> floor_min(Completed(i))]

\* the sweep that the overlap test amounts to: increment at the bucket that ends
\* at or after the acceptance, decrement at the bucket after the completion minute
LastBucketBeforeAcceptance == [i \in Qualifying |-> ceil_min(Accepted(i)) - 60]

BucketAfterCompletion == [i \in Qualifying |-> floor_min(Completed(i)) + 60]

\* C7 as stated: for every set of order intervals of the target day, the counts
\* of the naive overlap test are identical, bucket by bucket, to those of the
\* event-counting sweep that increments at each order's acceptance minute and
\* decrements at its completion minute.
C7_NaiveEqualsMinuteSweep ==
    (ConcurrencyOk /\ WellFormedIntervals) =>
        NaiveCounts = EventSweep(ret.df_concurrencia, AcceptanceMinute, CompletionMinute,
                                 Len(ret.df_concurrencia))

\* C7 as amended: for every set of order intervals (accepted_at <= completed_at)
\* of the target day, the counts of the naive overlap test are identical, bucket
\* by bucket, to those of the event-counting sweep that increments at the bucket
\* starting one minute before accepted_at rounded up to the minute and decrements
\* at the bucket starting one minute after the completion minute.
C7_NaiveEqualsClosedSweep ==
    (ConcurrencyOk /\ WellFormedIntervals) =>
        NaiveCounts = EventSweep(ret.df_concurrencia, LastBucketBeforeAcceptance,
                                 BucketAfterCompletion, Len(ret.df_concurrencia))

\* two overlapping intervals, one accepted on the minute and one off it, and a
\* bucket that holds both
C7_Witness ==
    /\ ConcurrencyOk
    /\ WellFormedIntervals
    /\ Cardinality(Qualifying) = 2
    /\ \E i \in Qualifying : Accepted(i) % 60 = 0
    /\ \E i \in Qualifying : Accepted(i) % 60 # 0
    /\ ret.max_concurrencia = 2
    /\ \E k \in DOMAIN ret.df_concurrencia : ret.df_concurrencia[k].Pedidos_Simultaneos = 0

\* C8: tie-break.  The bucket that starts at peak_window_start has the peak
\* count, and no bucket with a lower start time has a count equal to the peak.
C8_PeakIsEarliest ==
    ConcurrencyOk =>
        /\ \E k \in DOMAIN ret.df_concurrencia :
              /\ ret.df_concurrencia[k].Hora = ret.mejor_inicio
              /\ ret.df_concurrencia[k].Pedidos_Simultaneos = ret.max_concurrencia
        /\ \A k \in DOMAIN ret.df_concurrencia :
              ret.df_concurrencia[k].Hora < ret.mejor_inicio =>
                  ret.df_concurrencia[k].Pedidos_Simultaneos # ret.max_concurrencia

\* several buckets share the maximal count, the first of them not being the
\* first bucket of the series
C8_Witness ==
    /\ ConcurrencyOk
    /\ Cardinality({k \in DOMAIN ret.df_concurrencia :
                      ret.df_concurrencia[k].Pedidos_Simultaneos = ret.max_concurrencia}) > 1
    /\ ret.mejor_inicio # ret.df_concurrencia[1].Hora
    /\ ret.max_concurrencia = 2

\* C9: no-data sentinel.  If the input is empty, or no record has accepted_at on
\* the target date, or every such record lacks a valid completed_at,
\* process_concurrency returns the all-null tuple: it neither raises nor returns
\* a series.
C9_NoDataSentinel ==
    (pc = "process_concurrency" /\ Qualifying = {}) => ret = NoneTuple

(***************************************************************************)
(* DataProcessor.process_monthly_data                                      *)
(***************************************************************************)
\* the guard of every aggregator that takes the fetched response:
\* not data_estadistica or not data_estadistica.get("success")
fetch_failed(state) == state # "ok"

\* mutant: no frame is ever taken for empty
df_empty_never(rows) == FALSE

\* df.empty of pd.DataFrame(todos)
df_empty(rows) == rows = <<>>

\* a monthly period: fecha_completa.dt.to_period('M')
Period(dt) == [year |-> dt.year, month |-> dt.month]

\* df_estadistica["mes"]: the month of order_completion_date (NaT has none)
monthly_mes(r) == r.order_completion_date

\* the keys of groupby("mes"): NaT keys are dropped
monthly_keys(rows) ==
    {Period(monthly_mes(rows[i]).date) :
        i \in {j \in DOMAIN rows : monthly_mes(rows[j]).kind = "ts"}}

\* the rows of one group of groupby("mes")
monthly_group(rows, mes) ==
    {i \in DOMAIN rows : /\ monthly_mes(rows[i]).kind = "ts"
                         /\ Period(monthly_mes(rows[i]).date) = mes}

\* the periods of S in ascending order
RECURSIVE SortPeriods(_)
SortPeriods(S) ==
    IF S = {} THEN <<>>
    ELSE LET lo == CHOOSE a \in S : \A b \in S :
                        a.year < b.year \/ (a.year = b.year /\ a.month <= b.month)
         IN  <<lo>> \o SortPeriods(S \ {lo})

\* groupby([fecha_completa.dt.date, "mes"])["id_restaurant"].nunique(), then
\* groupby("mes").mean(): the sum of the daily counts over the number of days
monthly_establecimientos_promedio(rows, mes) ==
    LET dias == {dt \in daily_keys(rows) : Period(dt) = mes}
    IN  [num |-> SumOver(dias, [dt \in dias |-> daily_nunique(rows, dt)]),
         den |-> Cardinality(dias)]

\* groupby("mes")["id_restaurant"].nunique()
monthly_establecimientos_unicos(rows, mes) ==
    Cardinality({rows[i].id_restaurant :
                    i \in {j \in monthly_group(rows, mes) : rows[j].id_restaurant # 0}})

\* mutant: the orders of a month counted once per restaurant
monthly_pedidos_totales_per_restaurant(rows, mes) == monthly_establecimientos_unicos(rows, mes)

\* groupby("mes").size()
monthly_pedidos_totales(rows, mes) == Cardinality(monthly_group(rows, mes))

\* groupby("mes").agg({"creditos": "sum"}): "mes" is the completion month
monthly_creditos_totales(rows, mes) ==
    LET grupo == monthly_group(rows, mes)
    IN  SumOver(grupo, [i \in grupo |-> to_numeric_coerce_fillna0(rows[i].costo_creditos)])

\* the per-day terms x.shape[0] / x["id_restaurant"].nunique() (np.nan when no
\* restaurant) whose mean over the days of the month is the ratio column
monthly_ratio_terms(rows, mes) ==
    LET dias == SortDates({dt \in daily_keys(rows) : Period(dt) = mes})
    IN  [k \in DOMAIN dias |-> Promedio(daily_size(rows, dias[k]), daily_nunique(rows, dias[k]))]

\* df_mensual: one row per completion month, in ascending order
monthly_df_mensual(rows) ==
    LET meses == SortPeriods(monthly_keys(rows))
    IN  [k \in DOMAIN meses |->
            [mes |-> meses[k],
             establecimientos_promedio |-> monthly_establecimientos_promedio(rows, meses[k]),
             establecimientos_unicos |-> monthly_establecimientos_unicos(rows, meses[k]),
             pedidos_totales |-> monthly_pedidos_totales(rows, meses[k]),
             creditos_totales |-> monthly_creditos_totales(rows, meses[k]),
             ratio_pedidos_establecimientos |-> monthly_ratio_terms(rows, meses[k]),
             mes_display |-> <<meses[k].month, " ", meses[k].year>>]]

\* df_diario_para_grafico: size and nunique per completion date
monthly_df_diario(rows) ==
    LET dias == SortDates(daily_keys(rows))
    IN  [k \in DOMAIN dias |->
            [fecha |-> dias[k],
             total_pedidos |-> daily_size(rows, dias[k]),
             total_establecimientos |-> daily_nunique(rows, dias[k])]]

\* df_estadistica with its added columns
monthly_df_estadistica(rows) ==
    [i \in DOMAIN rows |->
        [id_restaurant |-> rows[i].id_restaurant,
         fecha_completa |-> rows[i].order_completion_date,
         created_at |-> rows[i].created_at,
         mes |-> IF monthly_mes(rows[i]).kind = "ts"
                 THEN Period(monthly_mes(rows[i]).date) ELSE Period(NoDate),
         creditos |-> to_numeric_coerce_fillna0(rows[i].costo_creditos)]]

\* the three empty frames returned for a failed fetch or no rows
EmptyFrames == [status |-> "ok", df_mensual |-> <<>>, df_diario |-> <<>>, df_estadistica |-> <<>>]

RaisedMonthly(err) ==
    [status |-> "raises", error |-> err, df_mensual |-> <<>>, df_diario |-> <<>>,
     df_estadistica |-> <<>>]

process_monthly_data(state, rows) ==
    IF fetch_failed(state) THEN EmptyFrames
    ELSE IF df_empty(rows) THEN EmptyFrames
    ELSE IF rows = <<>> THEN RaisedMonthly("KeyError")
    ELSE IF to_datetime_raises([i \in DOMAIN rows |-> rows[i].order_completion_date])
         THEN RaisedMonthly("ValueError")
    ELSE IF to_datetime_raises([i \in DOMAIN rows |-> rows[i].created_at])
         THEN RaisedMonthly("ValueError")
    ELSE [status |-> "ok",
          df_mensual |-> monthly_df_mensual(rows),
          df_diario |-> monthly_df_diario(rows),
          df_estadistica |-> monthly_df_estadistica(rows)]

ProcessMonthlyData ==
    /\ pc = "start"
    /\ pc' = "process_monthly_data"
    /\ ret' = process_monthly_data(data_state, todos)
    /\ UNCHANGED args

(***************************************************************************)
(* The five aggregators on one fetched response.                           *)
(*                                                                         *)
(* The four aggregators that take the response are called with whatever    *)
(* the fetch returned; process_concurrency takes the frame its callers     *)
(* build from the records of a response that is not None                   *)
(* (general_dashboard.py: _render_main_charts_tab, _render_concurrency_tab)*)
(* and the fetch returns either None or a response with success true.      *)
(***************************************************************************)
MaxAggRecords == 2

AggOrders ==
    {Order(1, acc, comp, created, Credits(3)) :
        acc \in {Ts(TargetDay, 10, 0, 0), Unparseable},
        comp \in {Ts(TargetDay, 10, 30, 0), Unparseable},
        created \in {Ts(TargetDay, 9, 0, 0), Unparseable}}

InitAggregators ==
    /\ pc = "start"
    /\ data_state \in {"None", "failed", "ok"}
    /\ todos \in SeqUpTo(AggOrders, MaxAggRecords)
    /\ data_state # "ok" => todos = <<>>
    /\ fecha = TargetDay
    /\ fechas = <<>>
    /\ data_type \in {"pedidos", "creditos"}
    /\ selected_year \in {0, 2025}
    /\ now_year \in {2025, 2026}
    /\ NoScalarArguments
    /\ NoDashboard
    /\ ret = NoRet

\* df = pd.DataFrame(data["data"]["detalle"]["general"]["todos"]) and the call,
\* under the caller's guard on the response
RenderConcurrency == data_state = "ok" /\ ProcessConcurrency

NextAggregators ==
    \/ ProcessEstablishmentsOrders
    \/ ProcessHourlyOrders
    \/ CalculateWeeklyData
    \/ ProcessMonthlyData
    \/ RenderConcurrency

SpecAggregators == InitAggregators /\ [][NextAggregators]_vars

(***************************************************************************)
(* Claims about failed and empty input.                                    *)
(***************************************************************************)
\* the empty / no-data value each aggregator documents
Sentinel(op) ==
    CASE op = "process_establishments_orders" -> [status |-> "ok", rows |-> <<>>]
      [] op = "process_hourly_orders" -> [status |-> "ok", rows |-> <<>>]
      [] op = "calculate_weekly_data" -> [status |-> "ok", rows |-> <<>>]
      [] op = "process_monthly_data" ->
            [status |-> "ok", df_mensual |-> <<>>, df_diario |-> <<>>, df_estadistica |-> <<>>]
      [] op = "process_concurrency" -> [status |-> "None"]

MonthlyPedidos(rows) == SumSeq([k \in DOMAIN rows |-> rows[k].pedidos_totales])

\* C12: malformed timestamps are absorbed per aggregate.  A record whose
\* completed_at, created_at or accepted_at cannot be parsed is left out of the
\* aggregates that need that field, the other records are still aggregated, and
\* none of the five aggregators raises because of it.
C12_MalformedAbsorbed ==
    pc # "start" =>
        /\ ret.status # "raises"
        /\ pc = "process_establishments_orders" =>
              RowsPedidos(ret.rows) = Cardinality(ValidCompleted)
        /\ pc = "process_monthly_data" =>
              MonthlyPedidos(ret.df_mensual) = Cardinality(ValidCompleted)

\* What the code does give: the two aggregators that parse with errors='coerce'
\* (hourly, weekly) never raise, and the other three raise only when a
\* timestamp they parse with the default errors='raise' is unparseable.
MalformedAbsorbedWhereCoerced ==
    pc # "start" =>
        /\ pc \in {"process_hourly_orders", "calculate_weekly_data"} => ret.status # "raises"
        /\ ret.status = "raises" =>
              \E i \in DOMAIN todos :
                  \/ /\ pc \in {"process_establishments_orders", "process_monthly_data"}
                     /\ todos[i].order_completion_date.kind = "bad"
                  \/ /\ pc = "process_monthly_data"
                     /\ todos[i].created_at.kind = "bad"
                  \/ /\ pc = "process_concurrency"
                     /\ todos[i].order_acceptance_date.kind = "bad"

(***************************************************************************)
(* MonthlyAnalysisView._calculate_deltas.safe_percentage_change            *)
(*                                                                         *)
(* The arguments are metric values of two rows of df_mensual: numbers, or  *)
(* np.nan (the ratio of a month without restaurants).  A quotient is kept  *)
(* as the pair (num, den) it is the value of.                              *)
(***************************************************************************)
MaxMetric == 10

Num(n) == [nan |-> FALSE, value |-> n]

NaN == [nan |-> TRUE, value |-> 0]

Metrics == {Num(n) : n \in 0..MaxMetric} \cup {NaN}

\* mutant: the guard lets a previous of 0 through
greater_than_zero_or_equal(x) == ~x.nan /\ x.value >= 0

\* previous > 0 (a comparison with np.nan is False)
greater_than_zero(x) == ~x.nan /\ x.value > 0

\* ((current - previous) / previous) * 100: a division by zero raises
\* ZeroDivisionError on Python numbers and gives inf or nan on numpy numbers
percentage(cur, prev) ==
    IF cur.nan \/ prev.nan THEN [kind |-> "nan", num |-> 0, den |-> 1]
    ELSE IF prev.value = 0 THEN [kind |-> "div0", num |-> 0, den |-> 0]
    ELSE [kind |-> "num", num |-> (cur.value - prev.value) * 100, den |-> prev.value]

safe_percentage_change(cur, prev) ==
    IF greater_than_zero(prev) THEN percentage(cur, prev)
    ELSE [kind |-> "num", num |-> 0, den |-> 1]

InitPercent ==
    /\ pc = "start"
    /\ data_state = "None"
    /\ todos = <<>>
    /\ fecha = NoDate
    /\ fechas = <<>>
    /\ data_type = "pedidos"
    /\ selected_year = 0
    /\ now_year = FirstYear
    /\ current \in Metrics
    /\ previous \in Metrics
    /\ week_number = 0
    /\ weekly_data = <<>>
    /\ hour = 0
    /\ NoDashboard
    /\ ret = NoRet

SafePercentageChange ==
    /\ pc = "start"
    /\ pc' = "safe_percentage_change"
    /\ ret' = safe_percentage_change(current, previous)
    /\ UNCHANGED args

NextPercent == SafePercentageChange

SpecPercent == InitPercent /\ [][NextPercent]_vars

\* C13: monthly delta zero-guard.  percent_change(current, previous) is exactly
\* 0 whenever previous is 0, whatever current is, and is
\* (current - previous) / previous * 100 whenever previous > 0; it never raises
\* and is never infinite.
C13_ZeroGuard ==
    pc = "safe_percentage_change" =>
        /\ ret.kind # "div0"
        /\ (~previous.nan /\ previous.value = 0) =>
              ret.kind = "num" /\ ret.num = 0 /\ ret.den = 1
        /\ (~previous.nan /\ previous.value > 0 /\ ~current.nan) =>
              /\ ret.kind = "num"
              /\ ret.den # 0
              /\ ret.num * previous.value = (current.value - previous.value) * 100 * ret.den

\* the change from a previous value of 0 to a positive current value was asked
\* for and came out as 0
C13_Witness ==
    /\ pc = "safe_percentage_change"
    /\ ~previous.nan /\ previous.value = 0
    /\ ~current.nan /\ current.value > 0
    /\ ret.kind = "num" /\ ret.num = 0

(***************************************************************************)
(* process_monthly_data on records created and completed around a month    *)
(* boundary.                                                               *)
(***************************************************************************)
MaxMonthlyRecords == 2

MonthlyCompleted ==
    {Ts(Date(2025, 6, 30), 23, 50, 0), Ts(Date(2025, 7, 1), 0, 10, 0), NaT, Unparseable}

MonthlyCreated == {Ts(Date(2025, 6, 30), 23, 30, 0), Ts(Date(2025, 7, 1), 0, 5, 0)}

MonthlyOrders ==
    {Order(rest, NaT, comp, created, cred) :
        rest \in 1..2, comp \in MonthlyCompleted, created \in MonthlyCreated,
        cred \in {Credits(2), BadCredits}}

InitMonthly ==
    /\ pc = "start"
    /\ data_state \in {"None", "failed", "ok"}
    /\ todos \in SeqUpTo(MonthlyOrders, MaxMonthlyRecords)
    /\ data_state # "ok" => todos = <<>>
    /\ fecha = NoDate
    /\ fechas = <<>>
    /\ data_type = "pedidos"
    /\ selected_year = 0
    /\ now_year = FirstYear
    /\ NoScalarArguments
    /\ NoDashboard
    /\ ret = NoRet

NextMonthly == ProcessMonthlyData

SpecMonthly == InitMonthly /\ [][NextMonthly]_vars

(***************************************************************************)
(* Claims about the monthly table.                                         *)
(***************************************************************************)
CompletedIn(mes) ==
    {i \in DOMAIN todos : /\ todos[i].order_completion_date.kind = "ts"
                          /\ todos[i].order_completion_date.date.year = mes.year
                          /\ todos[i].order_completion_date.date.month = mes.month}

CreatedIn(mes) ==
    {i \in DOMAIN todos : /\ todos[i].created_at.kind = "ts"
                          /\ todos[i].created_at.date.year = mes.year
                          /\ todos[i].created_at.date.month = mes.month}

CreditCost(i) == IF todos[i].costo_creditos.kind = "num" THEN todos[i].costo_creditos.value ELSE 0

MonthlyOk == pc = "process_monthly_data" /\ ret.status = "ok"

\* C14: monthly mixed-key credits.  In the per-month table of
\* process_monthly_data the row of month M has total_orders equal to the number
\* of records completed in M and total_credits equal to the sum of the coerced
\* credit_cost of the records created in M.
C14_MixedKeyCredits ==
    MonthlyOk =>
        \A k \in DOMAIN ret.df_mensual :
            LET row == ret.df_mensual[k]
            IN  /\ row.pedidos_totales = Cardinality(CompletedIn(row.mes))
                /\ row.creditos_totales =
                      SumOver(CreatedIn(row.mes), [i \in CreatedIn(row.mes) |-> CreditCost(i)])

\* What the code does give: both columns are keyed by the completion month.
MonthlyCreditsByCompletionMonth ==
    MonthlyOk =>
        \A k \in DOMAIN ret.df_mensual :
            LET row == ret.df_mensual[k]
            IN  /\ row.pedidos_totales = Cardinality(CompletedIn(row.mes))
                /\ row.creditos_totales =
                      SumOver(CompletedIn(row.mes), [i \in CompletedIn(row.mes) |-> CreditCost(i)])

(***************************************************************************)
(* DateUtils.get_week_date_range and DataProcessor._add_date_ranges        *)
(***************************************************************************)
MaxWeekNumber == 110

\* the year of the date with ordinal n, searched upwards from y
RECURSIVE YearOfOrd(_, _)
YearOfOrd(n, y) == IF n <= DaysBeforeYear(y + 1) THEN y ELSE YearOfOrd(n, y + 1)

\* the month of the n-th day of year y, searched upwards from m
RECURSIVE MonthOfDay(_, _, _)
MonthOfDay(y, n, m) ==
    IF n <= DaysBeforeMonth(y, m) + DaysInMonth(y, m) THEN m ELSE MonthOfDay(y, n, m + 1)

\* date.fromordinal(n)
Ord2Ymd(n) ==
    LET y == YearOfOrd(n, n \div 366 + 1)
        doy == n - DaysBeforeYear(y)
        m == MonthOfDay(y, doy, 1)
    IN  Date(y, m, doy - DaysBeforeMonth(y, m))

\* date + timedelta(days=n)
add_days(dt, n) == Ord2Ymd(Ymd2Ord(dt) + n)

\* mutant: the weeks after the first are counted from week 1
dias_desde_inicio_from_week_1(n) == (n - 1) * 7

\* dias_desde_inicio = (week_number - 2) * 7
dias_desde_inicio(n) == (n - 2) * 7

get_week_date_range(n) ==
    LET primera_semana_inicio == Date(2025, 1, 1)
        primera_semana_fin == Date(2025, 1, 5)
    IN  IF n = 1 THEN <<primera_semana_inicio, primera_semana_fin>>
        ELSE LET inicio_semana == add_days(Date(2025, 1, 6), dias_desde_inicio(n))
                 fin_semana == add_days(inicio_semana, 6)
             IN  <<inicio_semana, fin_semana>>

\* the loop of _add_date_ranges over weekly_data["semana"], the three added
\* columns and the renamed value column
add_date_ranges(rows, tipo) ==
    LET primera_semana_inicio == Date(2025, 1, 1)
        primera_semana_fin == Date(2025, 1, 5)
        fecha_inicios ==
            [i \in DOMAIN rows |->
                IF rows[i].semana = 1 THEN primera_semana_inicio
                ELSE add_days(Date(2025, 1, 6), (rows[i].semana - 2) * 7)]
        fecha_fins ==
            [i \in DOMAIN rows |->
                IF rows[i].semana = 1 THEN primera_semana_fin
                ELSE add_days(fecha_inicios[i], 6)]
    IN  [status |-> "ok",
         columna |-> IF tipo = "pedidos" THEN "pedidos_totales" ELSE "creditos_totales",
         rows |-> [i \in DOMAIN rows |->
                     [semana |-> rows[i].semana,
                      valor |-> rows[i].valor,
                      fecha_inicio |-> fecha_inicios[i],
                      fecha_fin |-> fecha_fins[i],
                      rango_fechas |-> <<fecha_inicios[i], " - ", fecha_fins[i]>>]]]

\* a weekly frame before the ranges are added: one row per week, ascending
WeekRow(n) == [semana |-> n, valor |-> 1]

InitWeekRange ==
    /\ pc = "start"
    /\ data_state = "None"
    /\ todos = <<>>
    /\ fecha = NoDate
    /\ fechas = <<>>
    /\ data_type \in {"pedidos", "creditos"}
    /\ selected_year = 2025
    /\ now_year = FirstYear
    /\ current = Num(0)
    /\ previous = Num(0)
    /\ week_number \in 1..MaxWeekNumber
    /\ weekly_data \in {<<WeekRow(week_number)>>,
                        <<WeekRow(week_number), WeekRow(week_number + 1)>>,
                        <<WeekRow(1), WeekRow(week_number + 1)>>}
    /\ hour = 0
    /\ NoDashboard
    /\ ret = NoRet

GetWeekDateRange ==
    /\ pc = "start"
    /\ pc' = "get_week_date_range"
    /\ ret' = [status |-> "ok", fecha_inicio |-> get_week_date_range(week_number)[1],
               fecha_fin |-> get_week_date_range(week_number)[2]]
    /\ UNCHANGED args

\* _add_date_ranges adds its columns to the frame it was given and returns it
AddDateRanges ==
    /\ pc = "start"
    /\ pc' = "_add_date_ranges"
    /\ ret' = add_date_ranges(weekly_data, data_type)
    /\ weekly_data' = add_date_ranges(weekly_data, data_type).rows
    /\ UNCHANGED <<data_state, todos, fecha, fechas, data_type, selected_year, now_year,
                   current, previous, week_number, hour, dashboard>>

NextWeekRange == GetWeekDateRange \/ AddDateRanges

SpecWeekRange == InitWeekRange /\ [][NextWeekRange]_vars

(***************************************************************************)
(* Claims about the range of a week.                                       *)
(***************************************************************************)
IsCalendarDate(dt) ==
    /\ dt.month \in 1..12
    /\ dt.day \in 1..DaysInMonth(dt.year, dt.month)

\* the range the claim gives week n: fixed for week 1, else the 7 days that
\* start (n - 2) * 7 days after 2025-01-06
IsRangeOfWeek(n, inicio, fin) ==
    IF n = 1 THEN inicio = Date(2025, 1, 1) /\ fin = Date(2025, 1, 5)
    ELSE /\ IsCalendarDate(inicio)
         /\ IsCalendarDate(fin)
         /\ Ymd2Ord(inicio) = Ymd2Ord(Date(2025, 1, 6)) + (n - 2) * 7
         /\ Ymd2Ord(fin) = Ymd2Ord(inicio) + 6
         /\ Ymd2Ord(fin) - Ymd2Ord(inicio) + 1 = 7

\* C15: date_range_of_week.  get_week_date_range(1) is (2025-01-01, 2025-01-05);
\* for every n >= 2 it is a range of exactly 7 days that starts
\* 2025-01-06 + (n - 2) * 7 days and ends 6 days later; _add_date_ranges gives
\* each week row the same range.
C15_WeekDateRange ==
    /\ pc = "get_week_date_range" =>
          IsRangeOfWeek(week_number, ret.fecha_inicio, ret.fecha_fin)
    /\ pc = "_add_date_ranges" =>
          \A i \in DOMAIN ret.rows :
              /\ IsRangeOfWeek(ret.rows[i].semana, ret.rows[i].fecha_inicio, ret.rows[i].fecha_fin)
              /\ <<ret.rows[i].fecha_inicio, ret.rows[i].fecha_fin>>
                    = get_week_date_range(ret.rows[i].semana)

\* the range of week 54 was asked for: it starts on 2026-01-05, in the next year
C15_Witness ==
    /\ pc = "get_week_date_range"
    /\ week_number = 54
    /\ ret.fecha_inicio = Date(2026, 1, 5)
    /\ ret.fecha_fin = Date(2026, 1, 11)

(***************************************************************************)
(* Repeated calls.  The dashboard calls the same operation on the same     *)
(* response again on every rerun of the page, while the wall clock         *)
(* advances (general_dashboard.py: _render_weekly_orders_tab calls         *)
(* calculate_weekly_data without selected_year).                           *)
(***************************************************************************)
LastClockYear == 2026

\* what an operation returns on the current arguments
Result(op) ==
    CASE op = "process_establishments_orders" -> process_establishments_orders(data_state, todos)
      [] op = "process_hourly_orders" -> process_hourly_orders(data_state, todos, fecha)
      [] op = "calculate_weekly_data" ->
            calculate_weekly_data(data_state, todos, data_type, selected_year, now_year)
      [] op = "process_monthly_data" -> process_monthly_data(data_state, todos)
      [] op = "process_concurrency" -> process_concurrency(todos, fecha)
      [] op = "_calculate_week_numbers" ->
            [status |-> "ok", semanas |-> calculate_week_numbers(fechas)]
      [] op = "get_week_date_range" ->
            [status |-> "ok", fecha_inicio |-> get_week_date_range(week_number)[1],
             fecha_fin |-> get_week_date_range(week_number)[2]]

InitPurity ==
    /\ pc = "start"
    /\ data_state \in {"None", "failed", "ok"}
    /\ todos \in SeqUpTo(AggOrders, MaxAggRecords)
    /\ data_state # "ok" => todos = <<>>
    /\ fecha = TargetDay
    /\ fechas \in {<<Date(2025, 12, 29)>>, <<Date(2026, 1, 5)>>}
    /\ data_type \in {"pedidos", "creditos"}
    /\ selected_year \in {0, 2025}
    /\ now_year = 2025
    /\ current = Num(0)
    /\ previous = Num(0)
    /\ week_number \in 1..2
    /\ weekly_data = <<>>
    /\ hour = 0
    /\ NoDashboard
    /\ ret = NoRet

\* the same operation is called again with the same arguments
CallAgain ==
    /\ pc # "start"
    /\ pc' = pc
    /\ ret' = Result(pc)
    /\ UNCHANGED args

\* a new year begins between two calls
ClockTick ==
    /\ now_year < LastClockYear
    /\ now_year' = now_year + 1
    /\ UNCHANGED <<pc, data_state, todos, fecha, fechas, data_type, selected_year,
                   current, previous, week_number, weekly_data, hour, dashboard, ret>>

NextPurity ==
    \/ ProcessEstablishmentsOrders
    \/ ProcessHourlyOrders
    \/ CalculateWeeklyData
    \/ ProcessMonthlyData
    \/ RenderConcurrency
    \/ CalculateWeekNumbers
    \/ GetWeekDateRange
    \/ CallAgain
    \/ ClockTick

SpecPurity == InitPurity /\ [][NextPurity]_vars

\* C16: purity and determinism.  Every aggregation, calendar and sweep
\* operation is a function of its records and explicit parameters only: a call
\* repeated with equal records and equal parameters returns the same result
\* whatever the wall-clock date of each call, and no call modifies the records
\* it was given.
C16_Pure ==
    [][/\ todos' = todos
       /\ (pc # "start" /\ pc' = pc) => ret' = ret]_vars

\* What the code does give: every operation but calculate_weekly_data without
\* an explicit year repeats its result, and no operation modifies the records.
PureWithExplicitYear ==
    [][/\ todos' = todos
       /\ (pc # "start" /\ pc' = pc /\ ~(pc = "calculate_weekly_data" /\ selected_year = 0))
             => ret' = ret]_vars

(***************************************************************************)
(* Claims about the series and the peak of process_concurrency.            *)
(***************************************************************************)
\* no acceptance timestamp of the input is an unparseable string
AcceptanceParses == \A i \in DOMAIN todos : todos[i].order_acceptance_date.kind # "bad"

\* C17: concurrency never fails on qualifying data.  Whenever at least one
\* record has accepted_at on the target date and a valid completed_at, whatever
\* those timestamps are, process_concurrency returns without raising a series
\* of at least one bucket with a defined peak count, peak start and peak end.
\* (Stated for inputs whose acceptance timestamps all parse.)
C17_QualifyingNeverFails ==
    (pc = "process_concurrency" /\ Qualifying # {} /\ AcceptanceParses) =>
        /\ ret.status = "ok"
        /\ Len(ret.df_concurrencia) >= 1
        /\ ret.max_concurrencia >= 0
        /\ ret.mejor_inicio < ret.mejor_fin

\* What the code does give: with parseable acceptance timestamps the call fails
\* exactly when the latest completion, rounded up to the hour, is not after the
\* earliest acceptance rounded down to the hour.
ConcurrencyFailsOnlyWithoutBucket ==
    (pc = "process_concurrency" /\ Qualifying # {} /\ AcceptanceParses) =>
        (ret.status = "raises" <=>
            \A i, j \in Qualifying : ceil_h(Completed(j)) <= floor_h(Accepted(i)))

\* the qualifying records whose interval meets the closed bucket [start, start + 1 min]
MeetsBucket(start) ==
    {i \in Qualifying : Accepted(i) <= start + 60 /\ Completed(i) >= start}

\* C18: concurrency bucket count.  For every bucket of the series,
\* simultaneous_count is the number of qualifying records with
\* accepted_at <= bucket_end and completed_at >= bucket_start, closed on both
\* ends with bucket_end = bucket_start + 1 minute, so an order whose interval
\* touches a bucket boundary is counted in both adjacent buckets.
C18_BucketCount ==
    ConcurrencyOk =>
        \A k \in DOMAIN ret.df_concurrencia :
            ret.df_concurrencia[k].Pedidos_Simultaneos
                = Cardinality(MeetsBucket(ret.df_concurrencia[k].Hora))

\* a single order completed exactly on a bucket boundary is counted in the
\* bucket that ends there and in the bucket that starts there
C18_Witness ==
    /\ ConcurrencyOk
    /\ Len(todos) = 1
    /\ \E k \in DOMAIN ret.df_concurrencia :
          /\ k > 1
          /\ \E i \in Qualifying : Completed(i) = ret.df_concurrencia[k].Hora
          /\ ret.df_concurrencia[k - 1].Pedidos_Simultaneos = 1
          /\ ret.df_concurrencia[k].Pedidos_Simultaneos = 1

\* the earliest acceptance and the latest completion of the qualifying records
EarliestAccepted ==
    CHOOSE t \in {Accepted(i) : i \in Qualifying} : \A i \in Qualifying : t <= Accepted(i)

LatestCompleted ==
    CHOOSE t \in {Completed(i) : i \in Qualifying} : \A i \in Qualifying : t >= Completed(i)

\* h is t rounded down, respectively up, to a whole hour
IsHourFloorOf(h, t) == h % 3600 = 0 /\ h <= t /\ t < h + 3600

IsHourCeilOf(h, t) == h % 3600 = 0 /\ h >= t /\ t > h - 3600

\* C19: concurrency series span.  The series is dense and ordered: its first
\* bucket starts at the earliest accepted_at floored to the hour, consecutive
\* bucket starts differ by exactly 1 minute, and its last bucket ends at the
\* latest completed_at ceiled to the hour, so the number of points is the
\* number of whole minutes between those two instants.
C19_SeriesSpan ==
    ConcurrencyOk =>
        LET serie == ret.df_concurrencia
        IN  /\ IsHourFloorOf(serie[1].Hora, EarliestAccepted)
            /\ \A k \in 1..(Len(serie) - 1) : serie[k + 1].Hora = serie[k].Hora + 60
            /\ IsHourCeilOf(serie[Len(serie)].Hora + 60, LatestCompleted)
            /\ Len(serie) * 60 = (serie[Len(serie)].Hora + 60) - serie[1].Hora

\* a series was returned for records accepted at 10:02:00 at the earliest and
\* completed at 10:03:30 at the latest: the 60 buckets of 10:00 to 11:00
C19_Witness ==
    /\ ConcurrencyOk
    /\ EarliestAccepted % 3600 = 120
    /\ LatestCompleted % 3600 = 210
    /\ Len(ret.df_concurrencia) = 60

\* the buckets of the returned series that hold its maximum count
PeakBuckets ==
    {k \in DOMAIN ret.df_concurrencia :
        \A j \in DOMAIN ret.df_concurrencia :
            ret.df_concurrencia[j].Pedidos_Simultaneos
                <= ret.df_concurrencia[k].Pedidos_Simultaneos}

\* C20: the peak window is one bucket.  The reported peak_count is the maximum
\* simultaneous_count of the series, the bucket that starts at peak_window_start
\* has exactly that count, and peak_window_end = peak_window_start + 1 minute
\* even when several consecutive buckets tie for the maximum.
C20_PeakWindowOneBucket ==
    ConcurrencyOk =>
        /\ \A k \in DOMAIN ret.df_concurrencia :
              ret.df_concurrencia[k].Pedidos_Simultaneos <= ret.max_concurrencia
        /\ \E k \in DOMAIN ret.df_concurrencia :
              /\ ret.df_concurrencia[k].Hora = ret.mejor_inicio
              /\ ret.df_concurrencia[k].Pedidos_Simultaneos = ret.max_concurrencia
        /\ ret.mejor_fin = ret.mejor_inicio + 60

\* a series was returned in which two consecutive buckets tie for the maximum
\* and the window is the first of them only
C20_Witness ==
    /\ ConcurrencyOk
    /\ \E k \in PeakBuckets :
          /\ k + 1 \in PeakBuckets
          /\ ret.df_concurrencia[k].Hora = ret.mejor_inicio
          /\ ret.mejor_fin = ret.df_concurrencia[k + 1].Hora

(***************************************************************************)
(* Claims about the week buckets of calculate_weekly_data.                 *)
(***************************************************************************)
\* the field the metric is keyed by: completed_at for pedidos, created_at for creditos
KeyStamp(i) ==
    IF data_type = "pedidos" THEN todos[i].order_completion_date ELSE todos[i].created_at

\* the records whose key parses and falls in the aggregated year
InYear == {i \in DOMAIN todos : KeyStamp(i).kind = "ts" /\ KeyStamp(i).date.year = EffectiveYear}

\* the business week of one date
WeekOf(dt) == calculate_week_numbers(<<dt>>)[1]

\* the dates of the data that mapped to a week
DatesOfWeek(w) == {KeyStamp(i).date : i \in {j \in InYear : WeekOf(KeyStamp(j).date) = w}}

WeeklyOk == pc = "calculate_weekly_data" /\ ret.status = "ok"

\* C21: weekly first/last date seen.  For every week bucket returned by
\* calculate_weekly_data, fecha_inicio and fecha_fin are the minimum and the
\* maximum of the dates of the input, of the selected year, that mapped to that
\* week; so fecha_inicio <= fecha_fin, both map to the bucket's week and both
\* occur in the data.
C21_FirstLastSeen ==
    WeeklyOk =>
        \A k \in DOMAIN ret.rows :
            LET row == ret.rows[k]
                seen == DatesOfWeek(row.semana)
            IN  /\ row.fecha_inicio \in seen
                /\ row.fecha_fin \in seen
                /\ \A dt \in seen : DateLE(row.fecha_inicio, dt) /\ DateLE(dt, row.fecha_fin)
                /\ DateLE(row.fecha_inicio, row.fecha_fin)
                /\ WeekOf(row.fecha_inicio) = row.semana
                /\ WeekOf(row.fecha_fin) = row.semana

\* orders completed on 2025-12-29 and 2025-12-31 and in another week: the bucket
\* of week 53 runs from the first to the last of its two dates, which is not
\* the whole week
C21_Witness ==
    /\ WeeklyOk
    /\ Len(ret.rows) = 2
    /\ ret.rows[2].semana = 53
    /\ ret.rows[2].fecha_inicio = Date(2025, 12, 29)
    /\ ret.rows[2].fecha_fin = Date(2025, 12, 31)

\* C22: weekly ordering.  The result of calculate_weekly_data is strictly
\* ascending by week number: each week number appears in at most one bucket,
\* and only week numbers to which a date of the selected year mapped appear.
C22_WeeklyOrdering ==
    WeeklyOk =>
        /\ \A k \in 1..(Len(ret.rows) - 1) : ret.rows[k].semana < ret.rows[k + 1].semana
        /\ \A k \in DOMAIN ret.rows : DatesOfWeek(ret.rows[k].semana) # {}

\* records given in descending date order, two of them in the same week: two
\* buckets, week 52 before week 53
C22_Witness ==
    /\ WeeklyOk
    /\ Len(todos) = 3
    /\ KeyStamp(1).kind = "ts" /\ KeyStamp(3).kind = "ts"
    /\ DateLT(KeyStamp(3).date, KeyStamp(1).date)
    /\ Len(ret.rows) = 2
    /\ ret.rows[1].semana = 52
    /\ ret.rows[2].semana = 53

\* C23: weekly credits coercion.  For the credits metric a record whose
\* credit_cost is missing or unparseable contributes 0 and is not excluded, and
\* a record whose created_at is unparseable is excluded: the creditos_totales
\* of the week buckets of year Y add up to the coerced credit_cost of the
\* records whose created_at is valid and falls in Y, and each such record has
\* the bucket of its week.
C23_CreditsCoercion ==
    (pc = "calculate_weekly_data" /\ data_type = "creditos") =>
        /\ ret.status = "ok"
        /\ RowsValor(ret.rows) =
              SumOver(InYear, [i \in InYear |->
                  IF todos[i].costo_creditos.kind = "num"
                  THEN todos[i].costo_creditos.value ELSE 0])
        /\ \A i \in InYear :
              \E k \in DOMAIN ret.rows : ret.rows[k].semana = WeekOf(todos[i].created_at.date)
        /\ ret.rows # <<>> => ret.columna = "creditos_totales"

\* a record with a credit cost that is no number, a record with credits and a
\* record whose created_at is unparseable: the bucket counts the credits of the
\* second only
C23_Witness ==
    /\ pc = "calculate_weekly_data"
    /\ data_type = "creditos"
    /\ Len(todos) = 3
    /\ \E i \in InYear : todos[i].costo_creditos.kind = "bad"
    /\ \E i \in InYear : todos[i].costo_creditos.kind = "num"
    /\ \E i \in DOMAIN todos : todos[i].created_at.kind = "bad"
    /\ Len(ret.rows) = 1
    /\ ret.rows[1].valor \in {2, 5}

(***************************************************************************)
(* The two per-day tables, process_establishments_orders and the           *)
(* df_diario_para_grafico of process_monthly_data, on the same response.   *)
(***************************************************************************)
NextDayTables == ProcessEstablishmentsOrders \/ ProcessMonthlyData

SpecDayTables == InitDaily /\ [][NextDayTables]_vars

\* C24: daily ordering of counts.  In every day bucket returned by
\* process_establishments_orders, and in every row of the monthly per-day
\* table, order_count >= distinct_establishment_count; the derived average is
\* order_count / distinct_establishment_count, and it is undefined (not 0, not
\* an error) when distinct_establishment_count is 0.
C24_DailyCounts ==
    /\ (pc = "process_establishments_orders" /\ ret.status = "ok") =>
          \A k \in DOMAIN ret.rows :
              LET row == ret.rows[k]
              IN  /\ row.Pedidos >= row.Establecimientos
                  /\ row.Establecimientos = 0 => ~row.Promedio.defined
                  /\ row.Establecimientos > 0 =>
                        /\ row.Promedio.defined
                        /\ row.Promedio.den # 0
                        /\ row.Promedio.num * row.Establecimientos
                              = row.Pedidos * row.Promedio.den
    /\ (pc = "process_monthly_data" /\ ret.status = "ok") =>
          \A k \in DOMAIN ret.df_diario :
              ret.df_diario[k].total_pedidos >= ret.df_diario[k].total_establecimientos

\* a day whose orders all lack a restaurant id: orders but no establishment,
\* and an undefined average
C24_Witness ==
    /\ pc = "process_establishments_orders"
    /\ ret.status = "ok"
    /\ \E k \in DOMAIN ret.rows :
          /\ ret.rows[k].Pedidos = 2
          /\ ret.rows[k].Establecimientos = 0
          /\ ~ret.rows[k].Promedio.defined

(***************************************************************************)
(* The hour helpers: the label lambda of process_hourly_orders (and of the *)
(* legacy procesar_pedidos_hora), DateUtils.format_hour_label and          *)
(* DateUtils.is_business_hour.  A label is the pair of the number printed  *)
(* and the text that follows it.                                           *)
(***************************************************************************)
LastHour == 23

\* mutant: noon is labelled as a morning hour
format_hour_label_noon_am(h) ==
    IF h > 12 THEN <<h - 12, ":00 PM">> ELSE <<h, ":00 AM">>

format_hour_label(h) ==
    IF h > 12 THEN <<h - 12, ":00 PM">>
    ELSE IF h < 12 THEN <<h, ":00 AM">>
    ELSE <<12, ":00 PM">>

\* return 8 <= hour <= 23
is_business_hour(h) == 8 <= h /\ h <= 23

InitHour ==
    /\ pc = "start"
    /\ data_state = "None"
    /\ todos = <<>>
    /\ fecha = NoDate
    /\ fechas = <<>>
    /\ data_type = "pedidos"
    /\ selected_year = 0
    /\ now_year = FirstYear
    /\ current = Num(0)
    /\ previous = Num(0)
    /\ week_number = 0
    /\ weekly_data = <<>>
    /\ hour \in 0..LastHour
    /\ NoDashboard
    /\ ret = NoRet

\* the lambda applied to one value of contador_final["hora"]
EtiquetaHora ==
    /\ pc = "start"
    /\ pc' = "etiqueta_hora"
    /\ ret' = [status |-> "ok", label |-> etiqueta_hora(hour)]
    /\ UNCHANGED args

\* the same lambda in the legacy procesar_pedidos_hora
EtiquetaHoraLegacy ==
    /\ pc = "start"
    /\ pc' = "procesar_pedidos_hora.etiqueta_hora"
    /\ ret' = [status |-> "ok", label |-> etiqueta_hora(hour)]
    /\ UNCHANGED args

FormatHourLabel ==
    /\ pc = "start"
    /\ pc' = "format_hour_label"
    /\ ret' = [status |-> "ok", label |-> format_hour_label(hour)]
    /\ UNCHANGED args

IsBusinessHour ==
    /\ pc = "start"
    /\ pc' = "is_business_hour"
    /\ ret' = [status |-> "ok", value |-> is_business_hour(hour)]
    /\ UNCHANGED args

NextHour == EtiquetaHora \/ EtiquetaHoraLegacy \/ FormatHourLabel \/ IsBusinessHour

SpecHour == InitHour /\ [][NextHour]_vars

\* the label the claim gives hour h
ClaimedLabel(h) ==
    CASE h = 12 -> <<12, ":00 PM">>
      [] h < 12 -> <<h, ":00 AM">>
      [] h > 12 -> <<h - 12, ":00 PM">>

\* C25: hour label format.  For every hour h in 0..23 the label is "12:00 PM"
\* when h = 12, "{h}:00 AM" when h < 12 and "{h-12}:00 PM" when h > 12; the
\* inline label of process_hourly_orders and DateUtils.format_hour_label give
\* the same string for every h.
C25_HourLabel ==
    (pc \in {"etiqueta_hora", "format_hour_label"} /\ hour \in 0..23) =>
        /\ ret.label = ClaimedLabel(hour)
        /\ etiqueta_hora(hour) = format_hour_label(hour)

\* noon was labelled by format_hour_label: "12:00 PM"
C25_Witness ==
    /\ pc = "format_hour_label"
    /\ hour = 12
    /\ ret.label = <<12, ":00 PM">>

(***************************************************************************)
(* DatabaseService.get_orders_data behind @st.cache_data(ttl=300), and the *)
(* "Actualizar Datos" button (st.cache_data.clear()).                      *)
(*                                                                         *)
(* st.cache_data keeps, per function, one entry for each value of the      *)
(* arguments that do not start with an underscore, here (fecha_inicio,     *)
(* fecha_fin); an entry is dropped once it is ttl seconds old.  The        *)
(* database is a version number that changes under the dashboard.          *)
(***************************************************************************)
ttl == 300

TickSeconds == 150

MaxClock == 600

MaxLog == 4

MaxDb == 2

\* the (fecha_inicio, fecha_fin) pairs the views ask for
CacheKeys == {<<Date(2025, 6, 1), Date(2025, 6, 30)>>, <<Date(2025, 6, 2), Date(2025, 6, 30)>>}

NoEntry == [present |-> FALSE, value |-> [kind |-> "None", version |-> 0], stored_at |-> 0]

\* what the body of get_orders_data returns: the response built from the rows
\* of the query, or None when the connection or the query fails
query_database(version, ok) ==
    IF ok THEN [kind |-> "dict", version |-> version] ELSE [kind |-> "None", version |-> 0]

\* mutant: an entry never expires
cache_hit_forever(entry, now) == entry.present

\* the entry of the key exists and is younger than ttl
cache_hit(entry, now) == entry.present /\ now - entry.stored_at < ttl

\* the arguments of the aggregator and helper calls, and the session
call_args ==
    <<data_state, todos, fecha, fechas, data_type, selected_year, now_year,
      current, previous, week_number, weekly_data, hour>>

session == <<session_state, app_mode, rendered>>

InitCache ==
    /\ pc = "start"
    /\ data_state = "None"
    /\ todos = <<>>
    /\ fecha = NoDate
    /\ fechas = <<>>
    /\ data_type = "pedidos"
    /\ selected_year = 0
    /\ now_year = FirstYear
    /\ NoScalarArguments
    /\ cache = [k \in CacheKeys |-> NoEntry]
    /\ clock = 0
    /\ db = 1
    /\ log = <<>>
    /\ session_state = NoSession
    /\ app_mode = "Estadísticas Generales"
    /\ rendered = "nothing"
    /\ ret = NoRet

\* a call of get_orders_data(fecha_inicio, fecha_fin): the stored entry if there
\* is a fresh one, else the body runs and its result, None included, is stored
GetOrdersData ==
    /\ Len(log) < MaxLog
    /\ \E k \in CacheKeys :
          IF cache_hit(cache[k], clock)
          THEN /\ ret' = cache[k].value
               /\ cache' = cache
               /\ log' = Append(log, [event |-> "call", key |-> k, time |-> clock,
                                      value |-> cache[k].value, queried |-> FALSE])
          ELSE \E ok \in BOOLEAN :
                  /\ ret' = query_database(db, ok)
                  /\ cache' = [cache EXCEPT ![k] = [present |-> TRUE,
                                                    value |-> query_database(db, ok),
                                                    stored_at |-> clock]]
                  /\ log' = Append(log, [event |-> "call", key |-> k, time |-> clock,
                                         value |-> query_database(db, ok), queried |-> TRUE])
    /\ pc' = "get_orders_data"
    /\ UNCHANGED <<call_args, clock, db, session>>

\* the "Actualizar Datos" button: st.cache_data.clear()
ActualizarDatos ==
    /\ Len(log) < MaxLog
    /\ cache' = [k \in CacheKeys |-> NoEntry]
    /\ log' = Append(log, [event |-> "clear", key |-> <<NoDate, NoDate>>, time |-> clock,
                           value |-> NoEntry.value, queried |-> FALSE])
    /\ pc' = "st.cache_data.clear"
    /\ UNCHANGED <<call_args, clock, db, session, ret>>

\* time passes
TickCache ==
    /\ clock + TickSeconds <= MaxClock
    /\ clock' = clock + TickSeconds
    /\ UNCHANGED <<pc, call_args, cache, db, log, session, ret>>

\* orders are completed: the database changes
DbChange ==
    /\ db < MaxDb
    /\ db' = db + 1
    /\ UNCHANGED <<pc, call_args, cache, clock, log, session, ret>>

NextCache == GetOrdersData \/ ActualizarDatos \/ TickCache \/ DbChange

SpecCache == InitCache /\ [][NextCache]_vars

(***************************************************************************)
(* Claims about the fetch cache, stated on the history of calls.           *)
(***************************************************************************)
\* the earlier calls that queried the database for the key of call n and whose
\* result no cache clear has dropped since
StoredBefore(n) ==
    {m \in 1..(n - 1) :
        /\ log[m].event = "call"
        /\ log[m].key = log[n].key
        /\ log[m].queried
        /\ \A c \in (m + 1)..(n - 1) : log[c].event # "clear"}

LastStoredBefore(n) == CHOOSE m \in StoredBefore(n) : \A l \in StoredBefore(n) : l <= m

\* C26: fetch cache freshness.  After get_orders_data(start, end) has returned
\* a result, a later call with the same (start, end) within 300 seconds of it
\* returns that stored result without querying the database; a call with
\* other parameters, a call after the 300-second window and the first call
\* after "Actualizar Datos" query the database again.
C26_CacheFreshness ==
    \A n \in DOMAIN log :
        log[n].event = "call" =>
            IF StoredBefore(n) = {} THEN log[n].queried
            ELSE LET m == LastStoredBefore(n)
                 IN  /\ log[n].time - log[m].time < 300 =>
                            ~log[n].queried /\ log[n].value = log[m].value
                     /\ log[n].time - log[m].time > 300 => log[n].queried

\* a result was stored, the database changed, and a call 150 seconds later
\* returned the stored result, which is no longer what the database holds
C26_Witness ==
    /\ pc = "get_orders_data"
    /\ Len(log) = 2
    /\ log[1].queried /\ log[1].value.kind = "dict"
    /\ ~log[2].queried
    /\ log[2].time - log[1].time = 150
    /\ ret = log[1].value
    /\ ret.version # db

(***************************************************************************)
(* _calculate_week_numbers inside the years that have hard-coded rules.    *)
(***************************************************************************)
HardCodedYears == {2025, 2026, 2027}

\* the dates of the year of d1 from d1 on
LaterInYear(d1) == {d2 \in Dates : d2.year = d1.year /\ DateLE(d1, d2)}

\* C27: week numbers are monotone inside the hard-coded years.  For a date d1
\* of 2025, 2026 or 2027 and every date d2 >= d1 of the same year,
\* _calculate_week_numbers gives week(d1) <= week(d2); the week is in 1..53,
\* and the later dates with the week of d1 are one run that starts at d1.
C27_WeekMonotone ==
    pc = "_calculate_week_numbers" /\ fechas[1].year \in HardCodedYears =>
        /\ ret.semanas[1] \in 1..53
        /\ \A d2 \in LaterInYear(fechas[1]) :
               /\ ret.semanas[1] <= WeekOf(d2)
               /\ WeekOf(d2) = ret.semanas[1] /\ d2 # fechas[1] =>
                      WeekOf(add_days(d2, -1)) = ret.semanas[1]

\* 2027: the hard-coded week 2 (Jan 4-10) runs on into the ISO week 2
\* (Jan 11-17), fourteen days in all, and Jan 18 is week 3
C27_Witness ==
    /\ pc = "_calculate_week_numbers"
    /\ fechas = <<Date(2027, 1, 4)>>
    /\ ret.semanas = <<2>>
    /\ WeekOf(Date(2027, 1, 17)) = 2
    /\ WeekOf(Date(2027, 1, 18)) = 3

(***************************************************************************)
(* DateUtils.calculate_week_number next to _calculate_week_numbers.        *)
(***************************************************************************)
\* mutant: the weeks after the first are counted from 1
calculate_week_number_from_1(f) ==
    LET primera_semana_fin == Date(2025, 1, 5)
        segunda_semana_inicio == Date(2025, 1, 6)
    IN  IF DateLE(f, primera_semana_fin) THEN 1
        ELSE LET dias_desde_segunda_semana == Ymd2Ord(f) - Ymd2Ord(segunda_semana_inicio)
             IN  (dias_desde_segunda_semana \div 7) + 1

\* DateUtils.calculate_week_number(fecha); reference_date is assigned and not
\* read
calculate_week_number(f) ==
    LET primera_semana_fin == Date(2025, 1, 5)
        segunda_semana_inicio == Date(2025, 1, 6)
    IN  IF DateLE(f, primera_semana_fin) THEN 1
        ELSE LET dias_desde_segunda_semana == Ymd2Ord(f) - Ymd2Ord(segunda_semana_inicio)
             IN  (dias_desde_segunda_semana \div 7) + 2

InitWeekSchemes ==
    /\ pc = "start"
    /\ data_state = "None"
    /\ todos = <<>>
    /\ fecha \in Dates
    /\ fechas = <<fecha>>
    /\ data_type = "pedidos"
    /\ selected_year = 0
    /\ now_year = FirstYear
    /\ NoScalarArguments
    /\ NoDashboard
    /\ ret = NoRet

CalculateWeekNumber ==
    /\ pc = "start"
    /\ pc' = "calculate_week_number"
    /\ ret' = [status |-> "ok", semana |-> calculate_week_number(fecha)]
    /\ UNCHANGED args

NextWeekSchemes == CalculateWeekNumber \/ CalculateWeekNumbers

SpecWeekSchemes == InitWeekSchemes /\ [][NextWeekSchemes]_vars

\* d lies inside get_week_date_range(n)
InsideWeekRange(d, n) ==
    DateLE(get_week_date_range(n)[1], d) /\ DateLE(d, get_week_date_range(n)[2])

\* C28: the two week schemes agree on 2025.  For every date d of 2025,
\* DateUtils.calculate_week_number(d) equals the week _calculate_week_numbers
\* gives d, and d lies inside get_week_date_range of that week.
C28_SchemesAgree ==
    fecha.year = 2025 =>
        /\ pc = "calculate_week_number" =>
               ret.semana = WeekOf(fecha) /\ InsideWeekRange(fecha, ret.semana)
        /\ pc = "_calculate_week_numbers" =>
               ret.semanas[1] = calculate_week_number(fecha)
               /\ InsideWeekRange(fecha, ret.semanas[1])

\* 2025-12-29 is week 53 in both schemes, and week 53 runs from it to 2026-01-04
C28_Witness ==
    /\ pc = "calculate_week_number"
    /\ fecha = Date(2025, 12, 29)
    /\ ret.semana = 53
    /\ WeekOf(fecha) = 53
    /\ get_week_date_range(53) = <<Date(2025, 12, 29), Date(2026, 1, 4)>>

(***************************************************************************)
(* process_monthly_data on orders of several days of two months.           *)
(***************************************************************************)
MonthTableStamps ==
    {Ts(Date(2025, 6, 1), 10, 0, 0), Ts(Date(2025, 6, 2), 9, 0, 0),
     Ts(Date(2025, 7, 1), 0, 10, 0), NaT}

MonthTableOrders ==
    {Order(rest, NaT, comp, NaT, Credits(2)) : rest \in 0..2, comp \in MonthTableStamps}

InitMonthTables ==
    /\ pc = "start"
    /\ data_state \in {"None", "failed", "ok"}
    /\ todos \in SeqUpTo(MonthTableOrders, MaxDailyRecords)
    /\ data_state # "ok" => todos = <<>>
    /\ fecha = NoDate
    /\ fechas = <<>>
    /\ data_type = "pedidos"
    /\ selected_year = 0
    /\ now_year = FirstYear
    /\ NoScalarArguments
    /\ NoDashboard
    /\ ret = NoRet

SpecMonthTables == InitMonthTables /\ [][NextMonthly]_vars

\* the rows of the per-day table whose date lies in the month
DayRowsOf(mes) == {j \in DOMAIN ret.df_diario : Period(ret.df_diario[j].fecha) = mes}

\* the distinct completion dates of the input
CompletionDates ==
    {todos[i].order_completion_date.date :
        i \in {j \in DOMAIN todos : todos[j].order_completion_date.kind = "ts"}}

\* C29: monthly and daily tables agree.  In the result of process_monthly_data
\* the row of every month M has total_orders equal to the sum of total_pedidos
\* over the per-day rows whose date lies in M, unique_establishments at least
\* every per-day total_establecimientos of M (and so at least
\* avg_active_establishments), and the per-day table has exactly one row per
\* distinct completion date.
C29_TablesAgree ==
    MonthlyOk =>
        /\ \A k \in DOMAIN ret.df_mensual :
              LET row == ret.df_mensual[k]
                  dias == DayRowsOf(row.mes)
              IN  /\ row.pedidos_totales
                        = SumOver(dias, [j \in dias |-> ret.df_diario[j].total_pedidos])
                  /\ \A j \in dias :
                        row.establecimientos_unicos >= ret.df_diario[j].total_establecimientos
                  /\ row.establecimientos_promedio.den > 0
                  /\ row.establecimientos_unicos * row.establecimientos_promedio.den
                        >= row.establecimientos_promedio.num
        /\ {ret.df_diario[j].fecha : j \in DOMAIN ret.df_diario} = CompletionDates
        /\ Len(ret.df_diario) = Cardinality(CompletionDates)

\* June with two days of one restaurant each, two restaurants in the month, and
\* one order in July
C29_Witness ==
    /\ MonthlyOk
    /\ Len(ret.df_mensual) = 2
    /\ Len(ret.df_diario) = 3
    /\ ret.df_mensual[1].pedidos_totales = 2
    /\ ret.df_mensual[1].establecimientos_unicos = 2
    /\ ret.df_mensual[1].establecimientos_promedio = [num |-> 2, den |-> 2]
    /\ ret.df_diario[1].total_establecimientos = 1
    /\ ret.df_diario[2].total_establecimientos = 1

(***************************************************************************)
(* The password gate of main(): check_password_for_protected_views, the    *)
(* view selector and the "Cerrar Sesión" button.  Every interaction ends   *)
(* with a run of main(), which renders the selected view or the password   *)
(* form.                                                                   *)
(***************************************************************************)
MaxEvents == 4

views == {"Mapa de Calor", "Análisis Mensual", "Estadísticas Generales", "Estadísticas Semanales"}

protected_views == {"Análisis Mensual", "Estadísticas Generales", "Estadísticas Semanales"}

\* os.getenv('DASHBOARD_PASSWORD', 'admin123')
correct_password == "admin123"

\* what a visitor types into the password field
Typed == {"admin123", "guess"}

\* mutant: only a session that never submitted a password is refused
check_password_once_submitted(ss, view_name) ==
    IF view_name \notin protected_views THEN "True"
    ELSE IF ss.password_correct = "absent" THEN "form"
    ELSE "True"

\* check_password_for_protected_views(view_name): True, or False after showing
\* the form ("form"), with the error when the last password was wrong
check_password_for_protected_views(ss, view_name) ==
    IF view_name \notin protected_views THEN "True"
    ELSE IF ss.password_correct = "absent" THEN "form"
    ELSE IF ss.password_correct # "True" THEN "form with error"
    ELSE "True"

\* the callback of the password field
password_entered(ss) ==
    IF ss.password = correct_password
    THEN [password_correct |-> "True", password |-> "absent"]
    ELSE [ss EXCEPT !.password_correct = "False"]

\* what a run of main() renders: the selected view, or the form and st.stop()
main(ss, mode) ==
    IF check_password_for_protected_views(ss, mode) = "True" THEN mode
    ELSE check_password_for_protected_views(ss, mode)

\* the state of a widget that a run does not render is dropped
after_run(ss, mode) ==
    IF main(ss, mode) \in views THEN [ss EXCEPT !.password = "absent"] ELSE ss

SessionEvent(ev, view, pw) == [event |-> ev, view |-> view, password |-> pw]

\* the first run of a new session: the selector shows its first option
InitSession ==
    /\ pc = "start"
    /\ data_state = "None"
    /\ todos = <<>>
    /\ fecha = NoDate
    /\ fechas = <<>>
    /\ data_type = "pedidos"
    /\ selected_year = 0
    /\ now_year = FirstYear
    /\ NoScalarArguments
    /\ cache = <<>>
    /\ clock = 0
    /\ db = 0
    /\ log = <<>>
    /\ session_state = NoSession
    /\ app_mode = "Mapa de Calor"
    /\ rendered = main(NoSession, "Mapa de Calor")
    /\ ret = NoRet

\* the visitor picks a view in the sidebar
SelectView ==
    /\ Len(log) < MaxEvents
    /\ \E v \in views :
          /\ app_mode' = v
          /\ rendered' = main(session_state, v)
          /\ session_state' = after_run(session_state, v)
          /\ log' = Append(log, SessionEvent("select", v, "absent"))
    /\ pc' = "selectbox"
    /\ UNCHANGED <<call_args, cache, clock, db, ret>>

\* the visitor submits the password field, which only the form shows
SubmitPassword ==
    /\ Len(log) < MaxEvents
    /\ rendered \notin views
    /\ \E pw \in Typed :
          LET ss == password_entered([session_state EXCEPT !.password = pw])
          IN  /\ rendered' = main(ss, app_mode)
              /\ session_state' = after_run(ss, app_mode)
              /\ log' = Append(log, SessionEvent("submit", app_mode, pw))
    /\ pc' = "password_entered"
    /\ UNCHANGED <<call_args, cache, clock, db, app_mode, ret>>

\* the "Cerrar Sesión" button, which the sidebar shows on a protected view
\* with an active session, and the st.rerun() that follows
CerrarSesion ==
    /\ Len(log) < MaxEvents
    /\ app_mode \in protected_views
    /\ session_state.password_correct = "True"
    /\ LET ss == [session_state EXCEPT !.password_correct = "False"]
       IN  /\ rendered' = main(ss, app_mode)
           /\ session_state' = after_run(ss, app_mode)
    /\ log' = Append(log, SessionEvent("logout", app_mode, "absent"))
    /\ pc' = "Cerrar Sesión"
    /\ UNCHANGED <<call_args, cache, clock, db, app_mode, ret>>

NextSession == SelectView \/ SubmitPassword \/ CerrarSesion

SpecSession == InitSession /\ [][NextSession]_vars

(***************************************************************************)
(* Claims about the password gate, stated on the history of the session.   *)
(***************************************************************************)
\* the password submissions and logouts so far
AuthEvents == {n \in DOMAIN log : log[n].event \in {"submit", "logout"}}

\* the most recent password submission was correct and no logout followed it
Authenticated ==
    /\ AuthEvents # {}
    /\ LET last == CHOOSE n \in AuthEvents : \A m \in AuthEvents : m <= n
       IN  log[last].event = "submit" /\ log[last].password = "admin123"

\* C30: password gate.  After any sequence of view selections, password
\* submissions and logouts in one session, a protected view is rendered only
\* if the most recent password submission was correct and no logout has
\* happened since; the public 'Mapa de Calor' view is rendered whenever it is
\* selected; and after a correct submission every protected view that is
\* selected is rendered, until logout.
C30_PasswordGate ==
    /\ rendered \in {"Análisis Mensual", "Estadísticas Generales", "Estadísticas Semanales"}
          => Authenticated
    /\ app_mode = "Mapa de Calor" => rendered = "Mapa de Calor"
    /\ (Authenticated
          /\ app_mode \in {"Análisis Mensual", "Estadísticas Generales", "Estadísticas Semanales"})
          => rendered = app_mode

\* a wrong password, then the right one on 'Análisis Mensual', and
\* 'Estadísticas Semanales' opens without another password
C30_Witness ==
    /\ Len(log) = 4
    /\ log[1] = SessionEvent("select", "Análisis Mensual", "absent")
    /\ log[2] = SessionEvent("submit", "Análisis Mensual", "guess")
    /\ log[3] = SessionEvent("submit", "Análisis Mensual", "admin123")
    /\ log[4] = SessionEvent("select", "Estadísticas Semanales", "absent")
    /\ rendered = "Estadísticas Semanales"

=============================================================================
